---- MODULE Spec2Model ----
(***************************************************************************)
(* A model of frame_jig.DFBuilder (src/src/frame_jig.py) and of the        *)
(* file_open overrides of its subclasses CoreBuilderL, CoreBuilderR,       *)
(* PatternBuilderL and PatternBuilderR (src/tests/SG_PatternProc.py).      *)
(*                                                                         *)
(* An optional Python value is a sequence of length at most one: <<>> is   *)
(* None and <<v>> is the value v.  A Python list is a sequence, a string   *)
(* a string, and x + y on strings is \o.  A file name is a record          *)
(* [head, rest, ext]: its first four characters, the middle and the        *)
(* suffix after the last dot, which is all that startswith/endswith tests  *)
(* of the code look at.                                                    *)
(*                                                                         *)
(* Spec is one build() on a builder of one of the five classes;            *)
(* SpecRebuild calls build() again on a builder whose build() has          *)
(* returned; SpecOverride is one build() on a subclass overriding clean.   *)
(***************************************************************************)
EXTENDS Integers, Sequences, FiniteSets, TLC

\* ------------------------------------------------------------------ bounds
\* Longest list of patterns handed to the constructor as files=[...].
MaxPatterns == 2
\* Most calls of build() on one builder.
MaxBuilds == 2
\* Most calls of accessors on one builder before it is built.
MaxCalls == 2
\* Longest list of files, and of suffixes, handed to
\* build_time_series_frame.
MaxSeries == 2

\* ------------------------------------------------------------ Python values
None == <<>>
Some(v) == <<v>>
IsNone(o) == o = <<>>
Val(o) == o[1]

Range(s) == {s[i] : i \in 1..Len(s)}
Contains(s, x) == \E i \in 1..Len(s) : s[i] = x
\* position of the first occurrence of x in s (list.index)
IndexOf(s, x) == CHOOSE i \in 1..Len(s) : s[i] = x /\ \A j \in 1..(i-1) : s[j] /= x

RECURSIVE Flatten(_)
\* concatenation of a sequence of sequences (repeated list.extend)
Flatten(ss) == IF ss = <<>> THEN <<>> ELSE Head(ss) \o Flatten(Tail(ss))

\* --------------------------------------------------------------- the tables
\* A pandas DataFrame: column labels, row labels (the index) and the rows,
\* each row a sequence of cell values aligned with columns.
NaN == "NaN"
Table(cols, idx, rws) == [columns |-> cols, index |-> idx, rows |-> rws]
RangeIndex(n) == [i \in 1..n |-> i - 1]

T_a == Table(<<"id", "val">>, RangeIndex(2), << <<"1", "10">>, <<"2", "20">> >>)
T_b == Table(<<"id", "val">>, RangeIndex(1), << <<"1", "100">> >>)
T_c == Table(<<"id", "value">>, RangeIndex(2), << <<"1", "7">>, <<"3", "9">> >>)
T_v == Table(<<"id", "val", "value">>, RangeIndex(1), << <<"1", "11", "8">> >>)
\* weekly patterns: a place and its visits by length of stay
T_p1 == Table(<<"id", "bucketed_dwell_times">>, RangeIndex(2),
              << <<"1", "{'<5': 2}">>, <<"2", "{'5-20': 1, '>240': 1}">> >>)
T_p2 == Table(<<"id", "bucketed_dwell_times">>, RangeIndex(1),
              << <<"1", "{'<5': 4}">> >>)

\* ---------------------------------------------------------- the file system
Name(h, r, e) == [head |-> h, rest |-> r, ext |-> e]
\* str.endswith(suffix) for the suffixes the code tests: csv, zip, gz
EndsWith(name, suffix) == name.ext = suffix
\* x[:4] == prefix
StartsWith4(name, prefix) == name.head = prefix

\* What a readable byte stream holds: the text of a table, or bytes that
\* are no delimited text (a zip archive read as if it were a csv file).
Text(t) == [text |-> TRUE, table |-> t]
Binary == [text |-> FALSE, table |-> Table(<<>>, <<>>, <<>>)]

Entry(name, payload) == [name |-> name, payload |-> payload]
Plain(name, payload) == [name |-> name, payload |-> payload, entries |-> <<>>]
Archive(name, ents) == [name |-> name, payload |-> Binary, entries |-> ents]

a_csv == Name("data", "/a.", "csv")
b_csv == Name("data", "/b.", "csv")
c_csv == Name("data", "/c.", "csv")
v_csv == Name("data", "/v.", "csv")
d_txt == Name("data", "/d.", "txt")
z0_zip == Name("data", "/z0.", "zip")
z1_zip == Name("data", "/z1.", "zip")
z3_zip == Name("data", "/z3.", "zip")
l_csv == Name("data", "/l.", "csv")
l_zip == Name("data", "/l.", "zip")
l_dat == Name("data", "/l.", "dat")

p1_csv == Name("data", "/p1.", "csv")
p2_csv == Name("data", "/p2.", "csv")

core1 == Name("core", "_poi-part1.", "csv")
core2 == Name("core", "_poi-part2.", "csv")
brand == Name("bran", "d_info.", "csv")
readme == Name("READ", "ME.", "txt")
licence == Name("LICE", "NSE.", "txt")

\* The files below the data directory.
Files ==
  { Plain(a_csv, Text(T_a)), Plain(b_csv, Text(T_b)), Plain(c_csv, Text(T_c)),
    Plain(v_csv, Text(T_v)), Plain(d_txt, Text(T_b)),
    Archive(z0_zip, << Entry(readme, Binary) >>),
    Archive(z1_zip, << Entry(readme, Binary), Entry(core1, Text(T_a)),
                       Entry(licence, Binary) >>),
    Archive(z3_zip, << Entry(core1, Text(T_a)), Entry(brand, Text(T_v)),
                       Entry(core2, Text(T_b)) >>),
    Plain(p1_csv, Text(T_p1)), Plain(p2_csv, Text(T_p2)),
    Plain(l_csv, Text(T_a)), Plain(l_dat, Text(T_a)),
    Archive(l_zip, << Entry(core1, Text(T_a)), Entry(core2, Text(T_b)) >>) }

\* The files the process may list but not read (their mode denies it):
\* glob finds them and open(), ZipFile() and s3.open() raise
\* PermissionError, an OSError.
Unreadable == { l_csv, l_zip, l_dat }

File(name) == CHOOSE f \in Files : f.name = name

\* glob.glob(pathname): the matches of a pattern.  A pattern naming one
\* file matches it; "[ab].csv" matches two files, which glob returns in
\* the order of the directory listing, so either order is possible; any
\* other pattern (a relative one without the base path, "x*.csv") matches
\* nothing.
Glob(pathname) ==
  CASE pathname = "data/a.csv" -> { <<a_csv>> }
    [] pathname = "data/b.csv" -> { <<b_csv>> }
    [] pathname = "data/c.csv" -> { <<c_csv>> }
    [] pathname = "data/v.csv" -> { <<v_csv>> }
    [] pathname = "data/d.txt" -> { <<d_txt>> }
    [] pathname = "data/z0.zip" -> { <<z0_zip>> }
    [] pathname = "data/z1.zip" -> { <<z1_zip>> }
    [] pathname = "data/z3.zip" -> { <<z3_zip>> }
    [] pathname = "data/[ab].csv" -> { <<a_csv, b_csv>>, <<b_csv, a_csv>> }
    [] pathname = "data/[av].csv" -> { <<a_csv, v_csv>>, <<v_csv, a_csv>> }
    [] pathname = "data/p1.csv" -> { <<p1_csv>> }
    [] pathname = "data/p2.csv" -> { <<p2_csv>> }
    [] pathname = "data/p[12].csv" -> { <<p1_csv, p2_csv>>, <<p2_csv, p1_csv>> }
    [] pathname = "data/l.csv" -> { <<l_csv>> }
    [] pathname = "data/l.zip" -> { <<l_zip>> }
    [] pathname = "data/l.dat" -> { <<l_dat>> }
    [] OTHER -> { <<>> }

Patterns == { "a.csv", "b.csv", "c.csv", "v.csv", "d.txt", "z0.zip", "z1.zip",
              "z3.zip", "[ab].csv", "x*.csv" }

\* An element of the files argument: a string or a list of strings, so
\* that isinstance(files[0], list) can be asked of it.
Str(s) == [list |-> FALSE, str |-> s, items |-> <<>>]
Lst(items) == [list |-> TRUE, str |-> "", items |-> items]
IsList(x) == x.list

\* -------------------------------------------------------------------- pandas
\* The outcome of a call that may raise: err is the exception's type, ""
\* when the call returned val.
NoTable == Table(<<>>, <<>>, <<>>)
Ok(t) == [err |-> "", val |-> t]
Raise(e) == [err |-> e, val |-> NoTable]

HasColumn(frame, c) == Contains(frame.columns, c)
Cell(frame, r, c) == frame.rows[r][IndexOf(frame.columns, c)]
Unique(s) == \A i, j \in 1..Len(s) : s[i] = s[j] => i = j

\* frame[columns]: the listed columns, in the listed order, of every row;
\* KeyError when a listed label is no column of the frame.
GetColumns(frame, columns) ==
  IF \E i \in 1..Len(columns) : ~HasColumn(frame, columns[i])
  THEN Raise("KeyError")
  ELSE Ok(Table(columns, frame.index,
                [r \in 1..Len(frame.rows) |->
                   [k \in 1..Len(columns) |-> Cell(frame, r, columns[k])]]))

\* frame.columns = [x + suffix for x in frame.columns]
AddSuffix(frame, suffix) ==
  Table([k \in 1..Len(frame.columns) |-> frame.columns[k] \o suffix],
        frame.index, frame.rows)

\* the row r of frame laid out on the columns cols, NaN where frame has
\* no such column
Reindexed(frame, r, cols) ==
  [k \in 1..Len(cols) |->
     IF HasColumn(frame, cols[k]) THEN Cell(frame, r, cols[k]) ELSE NaN]

\* pd.concat([top, bottom]): rows of bottom beneath the rows of top, the
\* columns the union in order of appearance, the row labels kept.
Concat(top, bottom) ==
  LET extra(c) == ~HasColumn(top, c)
      cols == top.columns \o SelectSeq(bottom.columns, extra)
  IN Ok(Table(cols, top.index \o bottom.index,
              [r \in 1..Len(top.rows) |-> Reindexed(top, r, cols)] \o
              [r \in 1..Len(bottom.rows) |-> Reindexed(bottom, r, cols)]))

RECURSIVE JoinRows(_, _, _, _, _)
\* The row pairs of a join, left rows in order from row r on: every left
\* row with each right row it matches (matches holds the matching pairs);
\* with how = "left" a left row without a match is paired with 0 (no
\* right row).
JoinRows(r, nleft, nright, matches, how) ==
  IF r > nleft THEN <<>>
  ELSE LET hit(j) == <<r, j>> \in matches
           js == SelectSeq([j \in 1..nright |-> j], hit)
           pairs == IF js = <<>>
                    THEN IF how = "left" THEN << <<r, 0>> >> ELSE <<>>
                    ELSE [k \in 1..Len(js) |-> <<r, js[k]>>]
       IN pairs \o JoinRows(r + 1, nleft, nright, matches, how)

\* left.merge(right, how=, on=, left_index=, right_index=, suffixes=) with
\* left_on = right_on = None and how in {inner, left}.
\*  - on given together with an index flag, or one index flag alone, or no
\*    key at all and no common column: MergeError;
\*  - a key that is no column of a side: KeyError;
\*  - a non-key label on both sides gets the side's suffix; with both
\*    suffixes empty that is a ValueError; labels that are duplicates after
\*    suffixing are a MergeError.
Merge(left, right, how, on, left_index, right_index, suffixes) ==
  LET both(c) == HasColumn(right, c)
      common == SelectSeq(left.columns, both)
      byIndex == left_index /\ right_index /\ IsNone(on)
      keys == IF byIndex THEN <<>> ELSE IF IsNone(on) THEN common ELSE Val(on)
      isKey(c) == Contains(keys, c)
      notKey(c) == ~isKey(c)
      rcols == SelectSeq(right.columns, notKey)
      overlap(c) == notKey(c) /\ HasColumn(left, c) /\ Contains(rcols, c)
      lname(c) == IF overlap(c) THEN c \o suffixes[1] ELSE c
      rname(c) == IF overlap(c) THEN c \o suffixes[2] ELSE c
      cols == [k \in 1..Len(left.columns) |-> lname(left.columns[k])] \o
              [k \in 1..Len(rcols) |-> rname(rcols[k])]
      match(i, j) ==
        IF byIndex THEN left.index[i] = right.index[j]
        ELSE \A k \in 1..Len(keys) : Cell(left, i, keys[k]) = Cell(right, j, keys[k])
      matches == { p \in (1..Len(left.rows)) \X (1..Len(right.rows)) :
                     match(p[1], p[2]) }
      pairs == JoinRows(1, Len(left.rows), Len(right.rows), matches, how)
      row(p) == left.rows[p[1]] \o
                [k \in 1..Len(rcols) |->
                   IF p[2] = 0 THEN NaN ELSE Cell(right, p[2], rcols[k])]
  IN
  IF ~IsNone(on) /\ (left_index \/ right_index) THEN Raise("MergeError")
  ELSE IF IsNone(on) /\ left_index /= right_index THEN Raise("MergeError")
  ELSE IF ~byIndex /\ keys = <<>> THEN Raise("MergeError")
  ELSE IF \E k \in 1..Len(keys) :
            ~HasColumn(left, keys[k]) \/ ~HasColumn(right, keys[k])
       THEN Raise("KeyError")
  ELSE IF suffixes[1] = "" /\ suffixes[2] = "" /\
          \E k \in 1..Len(rcols) : overlap(rcols[k])
       THEN Raise("ValueError")
  ELSE IF ~Unique(cols) THEN Raise("MergeError")
  ELSE Ok(Table(cols,
                IF byIndex THEN [k \in 1..Len(pairs) |-> left.index[pairs[k][1]]]
                ELSE RangeIndex(Len(pairs)),
                [k \in 1..Len(pairs) |-> row(pairs[k])]))

\* ------------------------------------------------------- the builder classes
Classes == {"DFBuilder", "CoreBuilderL", "CoreBuilderR", "PatternBuilderL",
            "PatternBuilderR"}
\* CoreBuilderL with its cleaner, return(frame), defined under the name
\* clean instead of df_clean: a subclass that overrides DFBuilder.clean.
CleanBuilder == "CleanBuilder"

\* ----------------------------------------------------------------- the state
VARIABLES
  cls,            \* the class of the builder object
  args,           \* the arguments the constructor was called with
  self,           \* the attributes of the builder (set by __init__)
  state,          \* New, NoObject, Configured, Building, Done, Failed
  pc,             \* the position inside build(); where it was left on failure
  full_file_list, \* build(): the expanded source list
  idx,            \* build(): position in full_file_list (0-based)
  big_df,         \* build(): the accumulator, None or a table
  file_p,         \* build(): the loop variable holding the yielded stream
  gen,            \* the suspended file_open generator of the current source
  open,           \* the streams that are open now
  opened,         \* every stream opened since construction, in order
  yielded,        \* this build(): [idx, stream] for every stream file_open
                  \* yielded, in order, idx the position of its source
  combined,       \* this build(): [idx, stream, given, frame, by] for every
                  \* table folded into the accumulator, in order: the
                  \* table clean was given, the one it returned and the
                  \* methods of the builder called on it
  error,          \* the exception that left __init__ or build(), "" if none
  result,         \* what build() returned: None or a table
  returned,       \* one record for every call of build() that returned,
                  \* in order: its sources, the column list it left, the
                  \* number of streams it was yielded and its result
  call,           \* the last call of an accessor (path, files, columns,
                  \* suffixes): its argument, the attributes before it,
                  \* what it returned or raised, and how many calls so far
  series          \* a call of build_time_series_frame: its arguments, its
                  \* position, its locals and what it returned or raised

vars == << cls, args, self, state, pc, full_file_list, idx, big_df, file_p,
           gen, open, opened, yielded, combined, error, result, returned, call,
           series >>

\* ------------------------------------------------------------------ streams
\* An open file object: n tells apart two opens of the same file, member is
\* None for a file of the file system and the entry's name for an entry
\* of a zip archive, via is the backend that opened it.
Handle(n, file, member, via, mode) ==
  [n |-> n, file |-> file, member |-> member, via |-> via, mode |-> mode]

PayloadOf(h) ==
  IF IsNone(h.member) THEN File(h.file).payload
  ELSE LET ents == File(h.file).entries
           i == CHOOSE k \in 1..Len(ents) : ents[k].name = Val(h.member)
       IN ents[i].payload

\* index_col=0: the first column of the text becomes the row labels and
\* is no column of the table
IndexCol0(t) ==
  Table(Tail(t.columns), [r \in 1..Len(t.rows) |-> t.rows[r][1]],
        [r \in 1..Len(t.rows) |-> Tail(t.rows[r])])

\* pd.read_csv(file_p, **self._file_params): the table of a stream of
\* delimited text, an error on anything else.
ReadCsv(h) ==
  IF ~PayloadOf(h).text THEN Raise("ParserError")
  ELSE IF self._file_params.index_col = Some(0) THEN Ok(IndexCol0(PayloadOf(h).table))
  ELSE Ok(PayloadOf(h).table)

\* A file_open generator.  pos: "start" before the first next(), "yield"
\* while suspended at a yield, "loop" after the z_fp.close() that follows
\* a yield inside the loop over z_contents.  z is the ZipFile's own handle
\* on the archive and fp the remote stream it reads from (CoreBuilderR),
\* both None outside the zip branch.
NoGen == [pos |-> "none", file |-> a_csv, z_contents |-> <<>>, k |-> 0,
          z |-> None, fp |-> None, cur |-> None]
NewGen(file_name) == [NoGen EXCEPT !.pos = "start", !.file = file_name]

\* --------------------------------------------------------------- arguments
\* **kwargs, the parameters handed on to read_csv: none, or index_col=0
NoParams == [index_col |-> None]
IndexColParams == [index_col |-> Some(0)]

Default ==
  [files |-> None, path |-> None, columns |-> None, axis |-> 0,
   suffixes |-> None, how |-> "inner", on |-> None, left_on |-> None,
   right_on |-> None, left_index |-> FALSE, right_index |-> FALSE,
   kwargs |-> NoParams]

RECURSIVE SeqsUpTo(_, _)
\* the sequences over S of length at most n
SeqsUpTo(S, n) ==
  IF n = 0 THEN { <<>> }
  ELSE LET shorter == SeqsUpTo(S, n - 1)
       IN shorter \cup { Append(q, x) : q \in { t \in shorter : Len(t) = n - 1 }, x \in S }

Flat(S) == { [i \in 1..Len(q) |-> Str(q[i])] : q \in SeqsUpTo(S, MaxPatterns) }
\* the patterns that match delimited text files only
TextPatterns == { "a.csv", "b.csv", "c.csv", "v.csv", "[ab].csv", "x*.csv" }
GroupPatterns == { "a.csv", "b.csv", "x*.csv" }
NestedFiles ==
  { << Lst(<<>>) >> } \cup
  { << Lst(<<Str(p)>>), Lst(<<Str(q)>>) >> : p, q \in GroupPatterns } \cup
  { << Lst(<<Str(p), Str(q)>>) >> : p, q \in GroupPatterns }

ColumnsArgs == { None, Some(<<>>), Some(<<"*">>), Some(<<"id", "val">>) }
SuffixesArgs == { None, Some(<<"_x">>), Some(<<"_x", "_y">>), Some(<<"_a", "_b">>) }
\* axis, how, on and the index flags
JoinArgs ==
  { [axis |-> 0, how |-> "inner", on |-> None, index |-> FALSE],
    [axis |-> 2, how |-> "inner", on |-> None, index |-> FALSE],
    [axis |-> 1, how |-> "inner", on |-> None, index |-> FALSE],
    [axis |-> 1, how |-> "inner", on |-> Some(<<"id">>), index |-> FALSE],
    [axis |-> 1, how |-> "inner", on |-> None, index |-> TRUE],
    [axis |-> 1, how |-> "left", on |-> Some(<<"id">>), index |-> FALSE],
    [axis |-> 1, how |-> "left", on |-> None, index |-> TRUE] }

WithArgs(f, c, s, j) ==
  [Default EXCEPT !.files = f, !.path = Some("data/"), !.columns = c,
                  !.suffixes = s, !.axis = j.axis, !.how = j.how, !.on = j.on,
                  !.left_index = j.index, !.right_index = j.index]

\* The constructions the model starts from: the base builder over text
\* files with every combination of columns, suffixes and join arguments;
\* every class over every kind of file, stacking all columns; and the
\* base builder with no base path.
TableConfigs ==
  { [cls |-> "DFBuilder", args |-> WithArgs(f, c, s, j)] :
      f \in { None } \cup { Some(l) : l \in Flat(TextPatterns) \cup NestedFiles },
      c \in ColumnsArgs, s \in SuffixesArgs, j \in JoinArgs }
StreamConfigs ==
  { [cls |-> k,
     args |-> [Default EXCEPT !.files = Some(l), !.path = Some("data/"),
                              !.columns = Some(<<"*">>), !.suffixes = s]] :
      k \in Classes, l \in Flat(Patterns) \ { <<>> }, s \in { None, Some(<<"_x">>) } }
BareConfigs ==
  { [cls |-> "DFBuilder", args |-> [Default EXCEPT !.files = Some(<<Str(p)>>)]] :
      p \in Patterns }
\* every class over sources that cannot be opened, alone or next to one
\* that can
LockedPatterns == { "a.csv", "l.csv", "l.zip", "l.dat" }
LockedConfigs ==
  { [cls |-> k,
     args |-> [Default EXCEPT !.files = Some(l), !.path = Some("data/"),
                              !.columns = Some(<<"*">>)]] :
      k \in Classes, l \in Flat(LockedPatterns) \ { <<>> } }
\* the subclass that overrides clean, over text files whose columns are
\* and are not the configured ones and over an archive
CleanPatterns == { "a.csv", "c.csv", "v.csv", "z3.zip" }
CleanConfigs ==
  { [cls |-> CleanBuilder,
     args |-> [Default EXCEPT !.files = Some(l), !.path = Some("data/"),
                              !.columns = c]] :
      l \in Flat(CleanPatterns) \ { <<>> },
      c \in { Some(<<"*">>), Some(<<"id">>), Some(<<"id", "val">>) } }
\* the core builders with one suffix for each source, over archives
\* that yield nothing and text files, stacking and joining on the index
SuffixPatterns == { "z1.zip", "a.csv", "c.csv" }
SuffixConfigs ==
  { [cls |-> k,
     args |-> [Default EXCEPT !.files = Some(l), !.path = Some("data/"),
                              !.columns = Some(<<"*">>),
                              !.suffixes = Some(<<"_x", "_y">>), !.axis = a,
                              !.left_index = TRUE, !.right_index = TRUE]] :
      k \in {"CoreBuilderL", "CoreBuilderR"}, l \in Flat(SuffixPatterns) \ { <<>> },
      a \in {0, 1} }
\* the base builder with index_col=0 handed on to the parser, stacking
\* and joining on the row labels
ParamConfigs ==
  { [cls |-> "DFBuilder",
     args |-> [Default EXCEPT !.files = Some(l), !.path = Some("data/"),
                              !.columns = c, !.axis = a,
                              !.left_index = TRUE, !.right_index = TRUE,
                              !.kwargs = IndexColParams]] :
      l \in { << Str("a.csv") >>, << Str("a.csv"), Str("c.csv") >>,
              << Str("c.csv"), Str("v.csv") >> },
      c \in { Some(<<"*">>), Some(<<"val">>) }, a \in {0, 1} }
Configs ==
  TableConfigs \cup StreamConfigs \cup BareConfigs \cup LockedConfigs \cup SuffixConfigs
    \cup ParamConfigs

\* The builders build() is called on more than once: the base builder
\* over files of different columns and a pattern whose matches may come
\* in either order, and a subclass over an archive.
RebuildPatterns == { "a.csv", "v.csv", "c.csv", "[av].csv", "x*.csv" }
RebuildFiles ==
  { << Str(p) >> : p \in RebuildPatterns } \cup
  { << Str(p), Str(q) >> : p, q \in { "a.csv", "v.csv", "[av].csv" } }
RebuildConfigs ==
  { [cls |-> "DFBuilder",
     args |-> [Default EXCEPT !.files = Some(l), !.path = Some("data/"),
                              !.columns = c]] :
      l \in RebuildFiles,
      c \in { Some(<<"*">>), Some(<<"id", "val">>) } } \cup
  { [cls |-> k,
     args |-> [Default EXCEPT !.files = Some(<<Str(p)>>), !.path = Some("data/"),
                              !.columns = Some(<<"*">>)]] :
      k \in {"CoreBuilderL", "PatternBuilderR"}, p \in {"z3.zip", "a.csv"} }

\* build_time_series_frame has not been called
NoSeries ==
  [pc |-> "none", files |-> <<>>, suffixes |-> <<>>, how |-> "inner", idx |-> 0,
   big_df |-> None, parts |-> <<>>, sources |-> <<>>, err |-> "", result |-> None]

\* no accessor has been called
NoCall ==
  [name |-> "", arg |-> None, before |-> None, ret |-> None, err |-> "", n |-> 0,
   given |-> None]

NoSelf ==
  [_files |-> None, _path |-> "", _keep_columns |-> None, _axis |-> 0,
   _suffixes |-> None, _how |-> "inner", _on |-> None, _left_on |-> None,
   _right_on |-> None, _left_index |-> FALSE, _right_index |-> FALSE,
   _file_params |-> NoParams]

Init ==
  /\ \E c \in Configs : cls = c.cls /\ args = c.args
  /\ self = NoSelf
  /\ state = "New"
  /\ pc = "init"
  /\ full_file_list = <<>>
  /\ idx = 0
  /\ big_df = None
  /\ file_p = None
  /\ gen = NoGen
  /\ open = {}
  /\ opened = <<>>
  /\ yielded = <<>>
  /\ combined = <<>>
  /\ error = ""
  /\ result = None
  /\ returned = <<>>
  /\ call = NoCall
  /\ series = NoSeries

\* ---------------------------------------------------------------- __init__
\* DFBuilder.__init__ (the subclasses pass their arguments on unchanged).
\* files[0] of an empty list raises IndexError and no builder exists.
DFBuilder_init ==
  /\ state = "New"
  /\ UNCHANGED << series, call, cls, args, returned, full_file_list, idx, big_df, file_p, gen, open,
                  opened, yielded, combined, result >>
  /\ IF ~IsNone(args.files) /\ Val(args.files) = <<>>
     THEN /\ state' = "NoObject"
          /\ pc' = pc
          /\ error' = "IndexError"
          /\ self' = self
     ELSE /\ state' = "Configured"
          /\ pc' = "idle"
          /\ error' = ""
          /\ self' =
               [_files |-> IF ~IsNone(args.files)
                           THEN IF IsList(Val(args.files)[1])
                                THEN Some(Val(args.files))
                                ELSE Some(<< Lst(Val(args.files)) >>)
                           ELSE Some(<<>>),
                _path |-> IF ~IsNone(args.path) THEN Val(args.path) ELSE "",
                _file_params |-> args.kwargs,
                _keep_columns |-> IF ~IsNone(args.columns)
                                  THEN Some(Val(args.columns)) ELSE Some(<<>>),
                _axis |-> args.axis,
                _suffixes |-> args.suffixes,
                _how |-> args.how,
                _on |-> args.on,
                _left_on |-> args.left_on,
                _right_on |-> args.right_on,
                _left_index |-> args.left_index,
                _right_index |-> args.right_index]

\* ---------------------------------------------------------------- accessors
\* What a call of an accessor leaves in call: before holds the attributes
\* the call found, ret what it returned (None when it raised err), given
\* the last argument a call of files() has stored (None when none has).
Called(name, arg, ret, err) ==
  [name |-> name, arg |-> arg, before |-> Some(self), ret |-> ret, err |-> err,
   n |-> call.n + 1,
   given |-> IF name = "files" /\ ~IsNone(arg) /\ err = "" THEN arg ELSE call.given]

\* The accessors are called on a builder that has not been built yet, at
\* most MaxCalls times.
CanCall ==
  /\ state = "Configured"
  /\ call.n < MaxCalls
  /\ UNCHANGED << series, cls, args, returned, state, pc, full_file_list, idx, big_df,
                  file_p, gen, open, opened, yielded, combined, error, result >>

PathArgs == { None, Some(""), Some("data/") }
FilesArgs ==
  { None, Some(<<>>), Some(<< Str("a.csv") >>), Some(<< Str("c.csv"), Str("a.csv") >>),
    Some(<< Str("x*.csv"), Str("[ab].csv") >>),
    Some(<< Lst(<< Str("a.csv") >>), Lst(<< Str("c.csv") >>) >>),
    Some(<< Lst(<< Str("b.csv"), Str("x*.csv") >>), Lst(<<>>), Lst(<< Str("a.csv") >>) >>) }
CallColumnsArgs == { None, Some(<<>>), Some(<<"*">>), Some(<<"id">>) }
CallSuffixesArgs == { None, Some(<<>>), Some(<<"_x">>), Some(<<"_x", "_y">>) }

\* self._path = copy(path)
Stored_path(slf, v) == [slf EXCEPT !._path = v]
\* self._files = copy(files), or [copy(files)]
Stored_files(slf, v) ==
  [slf EXCEPT !._files = IF IsList(v[1]) THEN Some(v) ELSE Some(<< Lst(v) >>)]
\* self._keep_columns = copy(columns)
Stored_columns(slf, v) == [slf EXCEPT !._keep_columns = Some(v)]
\* self._suffixes = suffixes
Stored_suffixes(slf, v) == [slf EXCEPT !._suffixes = Some(v)]

\* DFBuilder.path(path)
DFBuilder_path ==
  /\ CanCall
  /\ \E a \in PathArgs :
       LET after == IF ~IsNone(a) THEN Stored_path(self, Val(a)) ELSE self
       IN /\ self' = after
          /\ call' = Called("path", a, Some(after._path), "")

\* DFBuilder.files(files): files[0] of an empty list raises IndexError
\* before anything is assigned
DFBuilder_files ==
  /\ CanCall
  /\ \E a \in FilesArgs :
       IF ~IsNone(a) /\ Val(a) = <<>>
       THEN /\ self' = self
            /\ call' = Called("files", a, None, "IndexError")
       ELSE LET after == IF ~IsNone(a) THEN Stored_files(self, Val(a)) ELSE self
            IN /\ self' = after
               /\ call' = Called("files", a, Some(after._files), "")

\* DFBuilder.columns(columns)
DFBuilder_columns ==
  /\ CanCall
  /\ \E a \in CallColumnsArgs :
       LET after == IF ~IsNone(a) THEN Stored_columns(self, Val(a)) ELSE self
       IN /\ self' = after
          /\ call' = Called("columns", a, Some(after._keep_columns), "")

\* DFBuilder.suffixes(suffixes)
DFBuilder_suffixes ==
  /\ CanCall
  /\ \E a \in CallSuffixesArgs :
       LET after == IF ~IsNone(a) THEN Stored_suffixes(self, Val(a)) ELSE self
       IN /\ self' = after
          /\ call' = Called("suffixes", a, Some(after._suffixes), "")

\* ------------------------------------------------------------------- build
\* for group in self._files: for block in group: the patterns in order
Blocks(files) ==
  Flatten([g \in 1..Len(files) |->
             [b \in 1..Len(files[g].items) |-> files[g].items[b].str]])

RECURSIVE Expand_reversed(_, _)
\* Expand, but the matches of a pattern are put in front of the matches
\* of the patterns before it (full_file_list[0:0] = tmp_files)
Expand_reversed(path, blocks) ==
  IF blocks = <<>> THEN { <<>> }
  ELSE { r \o m : m \in Glob(path \o Head(blocks)),
                  r \in Expand_reversed(path, Tail(blocks)) }

RECURSIVE Expand(_, _)
\* the lists full_file_list can be after the loop of glob.glob calls
Expand(path, blocks) ==
  IF blocks = <<>> THEN { <<>> }
  ELSE { m \o r : m \in Glob(path \o Head(blocks)), r \in Expand(path, Tail(blocks)) }

\* an exception leaves build(): the frames, and what they refer to, stay
Fail(e) ==
  /\ state' = "Failed"
  /\ pc' = pc
  /\ error' = e

\* build() from its first line up to the loop over full_file_list, run
\* on a builder in any state: its locals are fresh, the attributes of the
\* builder are what the constructor or an earlier build() left
build_enter ==
  /\ UNCHANGED << series, call, cls, args, returned, self, file_p, gen, open, opened >>
  /\ result' = None
  /\ yielded' = <<>>
  /\ combined' = <<>>
  /\ idx' = 0
  /\ big_df' = None
  /\ IF IsNone(self._files)
     THEN /\ Fail("ValueError")
          /\ full_file_list' = <<>>
     ELSE /\ full_file_list' \in Expand(self._path, Blocks(Val(self._files)))
          /\ state' = "Building"
          /\ pc' = "for"
          /\ error' = ""

\* the first build() on the builder
build_start ==
  /\ state = "Configured"
  /\ build_enter

\* build() called again on a builder whose build() has returned
build_again ==
  /\ state = "Done"
  /\ Len(returned) < MaxBuilds
  /\ build_enter

\* build_for, but the sources are taken from the end of the list
\* (enumerate(reversed(full_file_list)))
build_for_reversed ==
  /\ state = "Building"
  /\ pc = "for"
  /\ UNCHANGED << series, call, cls, args, returned, self, state, full_file_list, idx, big_df, file_p,
                  open, opened, yielded, combined, error, result >>
  /\ IF idx < Len(full_file_list)
     THEN /\ gen' = NewGen(full_file_list[Len(full_file_list) - idx])
          /\ pc' = "next"
     ELSE /\ gen' = NoGen
          /\ pc' = "return"

\* for idx, file_name in enumerate(full_file_list): the next source, whose
\* generator self.file_open(file_name) is created, or the end of the loop
build_for ==
  /\ state = "Building"
  /\ pc = "for"
  /\ UNCHANGED << series, call, cls, args, returned, self, state, full_file_list, idx, big_df, file_p,
                  open, opened, yielded, combined, error, result >>
  /\ IF idx < Len(full_file_list)
     THEN /\ gen' = NewGen(full_file_list[idx + 1])
          /\ pc' = "next"
     ELSE /\ gen' = NoGen
          /\ pc' = "return"

\* ---------------------------------------------------------------- file_open
\* the classes whose file_open is DFBuilder.file_open
BaseFileOpen == cls = "DFBuilder"
IsCore == cls \in {"CoreBuilderL", "CoreBuilderR", CleanBuilder}
IsPattern == cls \in {"PatternBuilderL", "PatternBuilderR"}

\* z_contents: the names of the archive the class is interested in
Qualifies(x) ==
  IF IsCore
  THEN StartsWith4(x, "core") /\ (EndsWith(x, "gz") \/ EndsWith(x, "csv"))
  ELSE EndsWith(x, "gz") \/ EndsWith(x, "csv")
ZContents(file_name) ==
  LET ents == File(file_name).entries
  IN SelectSeq([i \in 1..Len(ents) |-> ents[i].name], Qualifies)

\* the entries the loop goes over: z_contents, or z_contents[:-1]
LoopEntries(zc) == IF IsPattern THEN SubSeq(zc, 1, Len(zc) - 1) ELSE zc

\* What one next() of the generator comes to: it yields stream, or stops,
\* or raises err; opn and opnd are open and opened after it, g the
\* generator's frame.
Yields(h, g, opn, opnd) ==
  [kind |-> "yield", err |-> "", stream |-> Some(h), gen |-> g, open |-> opn,
   opened |-> opnd]
Stops(g, opn, opnd) ==
  [kind |-> "stop", err |-> "", stream |-> None, gen |-> g, open |-> opn,
   opened |-> opnd]
Raises(e, g, opn, opnd) ==
  [kind |-> "raise", err |-> e, stream |-> None, gen |-> g, open |-> opn,
   opened |-> opnd]

\* What an open() that raises OSError comes to.  DFBuilder.file_open
\* catches it, prints a message and goes on to yield file_p, a local that
\* was never bound: UnboundLocalError.  The subclasses print and re-raise.
OpenError == IF BaseFileOpen THEN "UnboundLocalError" ELSE "OSError"

\* fp = open(file_name, mode) (or self.s3.open); yield(fp)
OpenPlain(g, via, mode, opn, opnd) ==
  LET h == Handle(Len(opnd) + 1, g.file, None, via, mode)
  IN IF g.file \in Unreadable THEN Raises(OpenError, g, opn, opnd)
     ELSE Yields(h, [g EXCEPT !.pos = "yield", !.cur = Some(h)],
                 opn \cup {h}, Append(opnd, h))

\* The statements after the loop over the entries of a zip archive.
\* CoreBuilderL has none; CoreBuilderR closes the remote stream; the
\* pattern builders open z_contents[-1] and return it: a return in a
\* generator ends the iteration and its value is not delivered by the
\* for loop of build(), and the z_fp.close() after it is never reached.
ZipTail(g, opn, opnd) ==
  CASE cls = "CoreBuilderL" -> Stops(g, opn, opnd)
    [] cls = "CoreBuilderR" -> Stops(g, opn \ {Val(g.fp)}, opnd)
    [] OTHER ->
         IF g.z_contents = <<>> THEN Raises("IndexError", g, opn, opnd)
         ELSE LET h == Handle(Len(opnd) + 1, g.file,
                              Some(g.z_contents[Len(g.z_contents)]), "local", "r")
              IN Stops(g, opn \cup {h}, Append(opnd, h))

\* for sub_file in ...: z_fp = z.open(sub_file); yield(z_fp): the entry at
\* position k of the loop, or the statements after the loop
ZipLoop(g, k, opn, opnd) ==
  IF Len(g.z_contents) > 1 /\ k <= Len(LoopEntries(g.z_contents))
  THEN LET h == Handle(Len(opnd) + 1, g.file, Some(LoopEntries(g.z_contents)[k]),
                       IF cls = "CoreBuilderR" THEN "s3" ELSE "local", "r")
       IN Yields(h, [g EXCEPT !.pos = "yield", !.k = k, !.cur = Some(h)],
                 opn \cup {h}, Append(opnd, h))
  ELSE ZipTail(g, opn, opnd)

\* z = zipfile.ZipFile(file_name), or fp = self.s3.open(file_name) and
\* z = zipfile.ZipFile(fp); then z_contents and the loop
OpenZip(g, opn, opnd) ==
  LET h == Handle(Len(opnd) + 1, g.file, None,
                  IF cls = "CoreBuilderR" THEN "s3" ELSE "local", "rb")
      g1 == [g EXCEPT !.z_contents = ZContents(g.file),
                      !.z = IF cls = "CoreBuilderR" THEN None ELSE Some(h),
                      !.fp = IF cls = "CoreBuilderR" THEN Some(h) ELSE None]
  IN IF g.file \in Unreadable THEN Raises("OSError", g, opn, opnd)
     ELSE ZipLoop(g1, 1, opn \cup {h}, Append(opnd, h))

\* The first next(): from the top of file_open to its first yield.
FileOpenFirst(g, opn, opnd) ==
  CASE BaseFileOpen -> OpenPlain(g, "local", "rb", opn, opnd)
    [] ~BaseFileOpen /\ EndsWith(g.file, "csv") ->
         OpenPlain(g, IF cls = "CoreBuilderR" THEN "s3" ELSE "local", "r", opn, opnd)
    [] ~BaseFileOpen /\ EndsWith(g.file, "zip") -> OpenZip(g, opn, opnd)
    [] OTHER ->
         OpenPlain(g, IF cls \in {"CoreBuilderR", "PatternBuilderR"} THEN "s3"
                      ELSE "local", "rb", opn, opnd)

\* build() takes what next() came to: a yielded stream is about to be
\* bound to file_p (the loop body begins with that), StopIteration ends the
\* inner for, an exception leaves build()
Take(o) ==
  /\ open' = o.open
  /\ opened' = o.opened
  /\ CASE o.kind = "yield" ->
            /\ yielded' = Append(yielded, [idx |-> idx, stream |-> Val(o.stream)])
            /\ gen' = o.gen
            /\ pc' = "body"
            /\ UNCHANGED << state, idx, file_p, error >>
       [] o.kind = "stop" ->
            /\ gen' = NoGen
            /\ idx' = idx + 1
            /\ pc' = "for"
            /\ UNCHANGED << state, file_p, yielded, error >>
       [] OTHER ->
            /\ Fail(o.err)
            /\ gen' = o.gen
            /\ UNCHANGED << idx, file_p, yielded >>

\* for file_p in self.file_open(file_name): the first next()
file_open_start ==
  /\ state = "Building"
  /\ pc = "next"
  /\ gen.pos = "start"
  /\ UNCHANGED << series, call, cls, args, returned, self, full_file_list, big_df, combined, result >>
  /\ Take(FileOpenFirst(gen, open, opened))

\* A later next(): the statements that follow the yield.  DFBuilder has
\* none, so the stream it yielded is left open; the subclasses close the
\* stream, after which a plain source is exhausted and the loop over the
\* entries of an archive goes on.
file_open_resume ==
  /\ state = "Building"
  /\ pc = "next"
  /\ gen.pos = "yield"
  /\ UNCHANGED << series, call, cls, args, returned, self, full_file_list, big_df, combined, result >>
  /\ IF BaseFileOpen
     THEN Take(Stops(gen, open, opened))
     ELSE IF IsNone(gen.z) /\ IsNone(gen.fp)
          THEN Take(Stops(gen, open \ {Val(gen.cur)}, opened))
          ELSE /\ open' = open \ {Val(gen.cur)}
               /\ gen' = [gen EXCEPT !.pos = "loop", !.cur = None]
               /\ UNCHANGED << state, pc, idx, file_p, opened, yielded, error >>

\* the loop over the entries goes on after z_fp.close()
file_open_loop ==
  /\ state = "Building"
  /\ pc = "next"
  /\ gen.pos = "loop"
  /\ UNCHANGED << series, call, cls, args, returned, self, full_file_list, big_df, combined, result >>
  /\ Take(ZipLoop(gen, gen.k + 1, open, opened))

\* ----------------------------------------------------------- the loop body
\* clean, but a listed column the frame lacks is left out instead of
\* raising (what frame.reindex or an intersection of the labels would do)
clean_present(frame, keep_columns) ==
  LET present(c) == HasColumn(frame, c)
  IN GetColumns(frame, SelectSeq(keep_columns, present))

\* self.clean(frame): frame[self._keep_columns]
clean(frame, keep_columns) == GetColumns(frame, keep_columns)

\* the cleaner of the subclasses: return(frame)
df_clean(frame) == Ok(frame)

\* The methods of the builder that the loop body calls on a parsed
\* table, in order: self.clean and no other (no class of the repository
\* calls its df_clean from clean, and build() calls it nowhere).
CleanersCalled == << "clean" >>

\* temp_df = self.clean(temp_df): the method of the builder's class
self_clean(frame, keep_columns) ==
  IF cls = CleanBuilder THEN df_clean(frame) ELSE clean(frame, keep_columns)

\* ResolveColumns, but a listed column the table lacks is struck from
\* the list
ResolveColumns_present(keep_columns, temp_df) ==
  LET present(c) == HasColumn(temp_df, c)
  IN IF IsNone(keep_columns) THEN [err |-> "", val |-> Some(temp_df.columns)]
     ELSE IF Val(keep_columns) = <<>> THEN [err |-> "IndexError", val |-> keep_columns]
     ELSE IF Val(keep_columns)[1] = "*" THEN [err |-> "", val |-> Some(temp_df.columns)]
     ELSE [err |-> "", val |-> Some(SelectSeq(Val(keep_columns), present))]

\* ResolveColumns, but a builder constructed with the wildcard takes the
\* columns of the first table of every build() anew
ResolveColumns_each_build(keep_columns, temp_df) ==
  IF IsNone(keep_columns) THEN [err |-> "", val |-> Some(temp_df.columns)]
  ELSE IF Val(keep_columns) = <<>> THEN [err |-> "IndexError", val |-> keep_columns]
  ELSE IF Val(keep_columns)[1] = "*" \/ (args.columns = Some(<<"*">>) /\ IsNone(big_df))
       THEN [err |-> "", val |-> Some(temp_df.columns)]
  ELSE [err |-> "", val |-> keep_columns]

\* if self._keep_columns is None or self._keep_columns[0] == '*': the
\* column list the body goes on with; indexing an empty list raises
ResolveColumns(keep_columns, temp_df) ==
  IF IsNone(keep_columns) THEN [err |-> "", val |-> Some(temp_df.columns)]
  ELSE IF Val(keep_columns) = <<>> THEN [err |-> "IndexError", val |-> keep_columns]
  ELSE IF Val(keep_columns)[1] = "*" THEN [err |-> "", val |-> Some(temp_df.columns)]
  ELSE [err |-> "", val |-> keep_columns]

\* TmpSuffixes, but a position beyond the list gets the empty suffix
TmpSuffixes_padded(suffixes, i) ==
  IF IsNone(suffixes) \/ i + 1 > Len(Val(suffixes))
  THEN [err |-> "", val |-> <<"", "">>]
  ELSE [err |-> "", val |-> <<"", Val(suffixes)[i + 1]>>]

\* TmpSuffixes, but without a suffix list the join is left to the
\* default suffixes of merge, ("_x", "_y")
TmpSuffixes_default(suffixes, i) ==
  IF IsNone(suffixes) THEN [err |-> "", val |-> <<"_x", "_y">>]
  ELSE IF i + 1 > Len(Val(suffixes)) THEN [err |-> "IndexError", val |-> <<"", "">>]
  ELSE [err |-> "", val |-> <<"", Val(suffixes)[i + 1]>>]

\* tmp_suffixes = ["", self._suffixes[idx]], or ["", ""]
TmpSuffixes(suffixes, i) ==
  IF IsNone(suffixes) THEN [err |-> "", val |-> <<"", "">>]
  ELSE IF i + 1 > Len(Val(suffixes)) THEN [err |-> "IndexError", val |-> <<"", "">>]
  ELSE [err |-> "", val |-> <<"", Val(suffixes)[i + 1]>>]

\* FirstTable, but the columns are renamed with the suffix of the source
\* the table came from, self._suffixes[idx]
FirstTable_own(temp_df, suffixes) ==
  IF IsNone(suffixes) THEN Ok(temp_df)
  ELSE IF idx + 1 > Len(Val(suffixes)) THEN Raise("IndexError")
  ELSE Ok(AddSuffix(temp_df, Val(suffixes)[idx + 1]))

\* big_df = temp_df.copy(), its columns renamed with self._suffixes[0]
FirstTable(temp_df, suffixes) ==
  IF IsNone(suffixes) THEN Ok(temp_df)
  ELSE IF Val(suffixes) = <<>> THEN Raise("IndexError")
  ELSE Ok(AddSuffix(temp_df, Val(suffixes)[1]))

\* Combine, but a stack renames the columns of every table with the
\* suffix of its source before stacking it
Combine_suffix_each(acc, temp_df, slf, tmp_suffixes) ==
  IF IsNone(acc) THEN FirstTable(temp_df, slf._suffixes)
  ELSE IF slf._axis = 0 THEN Concat(Val(acc), AddSuffix(temp_df, tmp_suffixes[2]))
  ELSE IF slf._axis = 1
       THEN Merge(Val(acc), temp_df, slf._how, slf._on, slf._left_index,
                  slf._right_index, tmp_suffixes)
  ELSE Ok(Val(acc))

\* Combine, but an axis other than 1 stacks (if / elif self._axis == 1 /
\* else: concat)
Combine_stack_else(acc, temp_df, slf, tmp_suffixes) ==
  IF IsNone(acc) THEN FirstTable(temp_df, slf._suffixes)
  ELSE IF slf._axis = 1
       THEN Merge(Val(acc), temp_df, slf._how, slf._on, slf._left_index,
                  slf._right_index, tmp_suffixes)
  ELSE Concat(Val(acc), temp_df)

\* Combine, but a stack drops the rows that repeat an earlier row
\* (pd.concat([...]).drop_duplicates())
Combine_dedup(acc, temp_df, slf, tmp_suffixes) ==
  IF IsNone(acc) THEN FirstTable(temp_df, slf._suffixes)
  ELSE IF slf._axis = 0
       THEN LET t == Concat(Val(acc), temp_df).val
                first(r) == \A q \in 1..(r - 1) : t.rows[q] /= t.rows[r]
                keep == SelectSeq([r \in 1..Len(t.rows) |-> r], first)
            IN Ok(Table(t.columns, [k \in 1..Len(keep) |-> t.index[keep[k]]],
                        [k \in 1..Len(keep) |-> t.rows[keep[k]]]))
  ELSE IF slf._axis = 1
       THEN Merge(Val(acc), temp_df, slf._how, slf._on, slf._left_index,
                  slf._right_index, tmp_suffixes)
  ELSE Ok(Val(acc))

\* the if / elif / elif of lines 329 to 339: the accumulator after the
\* table temp_df has been handed to it
Combine(acc, temp_df, slf, tmp_suffixes) ==
  IF IsNone(acc) THEN FirstTable(temp_df, slf._suffixes)
  ELSE IF slf._axis = 0 THEN Concat(Val(acc), temp_df)
  ELSE IF slf._axis = 1
       THEN Merge(Val(acc), temp_df, slf._how, slf._on, slf._left_index,
                  slf._right_index, tmp_suffixes)
  ELSE Ok(Val(acc))

\* Lines 311 to 339 for the stream just yielded: it is bound to file_p,
\* then parse, fix the column list, clean, pick the suffixes, combine.
\* The first step that raises ends build(); the column list it may have
\* replaced by then stays replaced.
build_body ==
  /\ state = "Building"
  /\ pc = "body"
  /\ UNCHANGED << series, call, cls, args, returned, full_file_list, idx, gen, open, opened, yielded,
                  result >>
  /\ file_p' = gen.cur
  /\ LET parsed == ReadCsv(Val(gen.cur))
         columns == ResolveColumns(self._keep_columns, parsed.val)
         cleaned == self_clean(parsed.val, Val(columns.val))
         tmp_suffixes == TmpSuffixes(self._suffixes, idx)
         folded == Combine(big_df, cleaned.val, self, tmp_suffixes.val)
     IN
     IF parsed.err /= ""
     THEN Fail(parsed.err) /\ UNCHANGED << self, big_df, combined >>
     ELSE IF columns.err /= ""
     THEN Fail(columns.err) /\ UNCHANGED << self, big_df, combined >>
     ELSE /\ self' = [self EXCEPT !._keep_columns = columns.val]
          /\ IF cleaned.err /= ""
             THEN Fail(cleaned.err) /\ UNCHANGED << big_df, combined >>
             ELSE IF tmp_suffixes.err /= ""
             THEN Fail(tmp_suffixes.err) /\ UNCHANGED << big_df, combined >>
             ELSE IF folded.err /= ""
             THEN Fail(folded.err) /\ UNCHANGED << big_df, combined >>
             ELSE /\ big_df' = Some(folded.val)
                  /\ combined' = Append(combined, [idx |-> idx, stream |-> Val(gen.cur),
                                                    given |-> parsed.val,
                                                    frame |-> cleaned.val,
                                                    by |-> CleanersCalled])
                  /\ pc' = "next"
                  /\ UNCHANGED << state, error >>

\* build_return, but build() also returns what it has accumulated when a
\* step of the loop has raised (a loop wrapped in try / except: break)
build_return_partial ==
  /\ \/ state = "Building" /\ pc = "return"
     \/ state = "Failed" /\ pc \in {"next", "body"}
  /\ UNCHANGED << series, call, cls, args, self, full_file_list, idx, big_df, open, opened,
                  yielded, combined, error >>
  /\ state' = "Done"
  /\ pc' = "idle"
  /\ result' = big_df
  /\ returned' = Append(returned, [sources |-> full_file_list,
                                   columns |-> self._keep_columns,
                                   streams |-> Len(yielded),
                                   result |-> big_df])
  /\ file_p' = None
  /\ gen' = NoGen

\* The outcome of a whole build(): what it raises, or the table or None
\* it returns.
Returns(v) == [err |-> "", val |-> v]
Throws(e) == [err |-> e, val |-> None]

RECURSIVE Fold(_, _, _, _)
\* The loop of lines 310 to 339 from the source at position i on, as one
\* function, for a builder whose file_open is DFBuilder.file_open: slf
\* the attributes of the builder before the source is opened, acc the
\* accumulator.
Fold(files, i, slf, acc) ==
  IF i >= Len(files) THEN Returns(acc)
  ELSE
    LET file_name == files[i + 1]
        parsed == ReadCsv(Handle(0, file_name, None, "local", "rb"))
        columns == ResolveColumns(slf._keep_columns, parsed.val)
        cleaned == self_clean(parsed.val, Val(columns.val))
        tmp_suffixes == TmpSuffixes(slf._suffixes, i)
        folded == Combine(acc, cleaned.val, slf, tmp_suffixes.val)
    IN IF file_name \in Unreadable THEN Throws(OpenError)
       ELSE IF parsed.err /= "" THEN Throws(parsed.err)
       ELSE IF columns.err /= "" THEN Throws(columns.err)
       ELSE IF cleaned.err /= "" THEN Throws(cleaned.err)
       ELSE IF tmp_suffixes.err /= "" THEN Throws(tmp_suffixes.err)
       ELSE IF folded.err /= "" THEN Throws(folded.err)
       ELSE Fold(files, i + 1, [slf EXCEPT !._keep_columns = columns.val],
                 Some(folded.val))

\* build() of a new builder with the column list and the other arguments
\* of this one, over the sources files
BuildOf(files) ==
  Fold(files, 0,
       [self EXCEPT !._keep_columns = IF ~IsNone(args.columns)
                                      THEN Some(Val(args.columns)) ELSE Some(<<>>)],
       None)

\* return big_df: the locals of build() are gone
build_return ==
  /\ state = "Building"
  /\ pc = "return"
  /\ UNCHANGED << series, call, cls, args, self, full_file_list, idx, big_df, open, opened,
                  yielded, combined, error >>
  /\ state' = "Done"
  /\ pc' = "idle"
  /\ result' = big_df
  /\ returned' = Append(returned, [sources |-> full_file_list,
                                   columns |-> self._keep_columns,
                                   streams |-> Len(yielded),
                                   result |-> big_df])
  /\ file_p' = None
  /\ gen' = NoGen

\* ------------------------------------------------------------- the runtime
\* the streams a live variable refers to: file_p of build() and the
\* locals of the suspended generator
Referenced ==
  Range(file_p) \cup Range(gen.z) \cup Range(gen.fp) \cup Range(gen.cur)

\* A file object nothing refers to any more is closed by its finalizer,
\* at a moment the runtime picks (at once under reference counting, at a
\* later collection or never otherwise).
Collect ==
  /\ state \in {"Building", "Done", "Failed"}
  /\ open \ Referenced /= {}
  /\ open' = open \cap Referenced
  /\ UNCHANGED << series, call, cls, args, returned, self, state, pc, full_file_list, idx, big_df,
                  file_p, gen, opened, yielded, combined, error, result >>

Next ==
  \/ DFBuilder_init
  \/ build_start
  \/ build_for
  \/ file_open_start
  \/ file_open_resume
  \/ file_open_loop
  \/ build_body
  \/ build_return
  \/ Collect

Spec == Init /\ [][Next]_vars

\* Builders that are built more than once.
InitRebuild ==
  /\ \E c \in RebuildConfigs : cls = c.cls /\ args = c.args
  /\ self = NoSelf
  /\ state = "New"
  /\ pc = "init"
  /\ full_file_list = <<>>
  /\ idx = 0
  /\ big_df = None
  /\ file_p = None
  /\ gen = NoGen
  /\ open = {}
  /\ opened = <<>>
  /\ yielded = <<>>
  /\ combined = <<>>
  /\ error = ""
  /\ result = None
  /\ returned = <<>>
  /\ call = NoCall
  /\ series = NoSeries

NextRebuild == Next \/ build_again

SpecRebuild == InitRebuild /\ [][NextRebuild]_vars

\* Builders of the subclass that overrides clean.
InitOverride ==
  /\ \E c \in CleanConfigs : cls = c.cls /\ args = c.args
  /\ self = NoSelf
  /\ state = "New"
  /\ pc = "init"
  /\ full_file_list = <<>>
  /\ idx = 0
  /\ big_df = None
  /\ file_p = None
  /\ gen = NoGen
  /\ open = {}
  /\ opened = <<>>
  /\ yielded = <<>>
  /\ combined = <<>>
  /\ error = ""
  /\ result = None
  /\ returned = <<>>
  /\ call = NoCall
  /\ series = NoSeries

SpecOverride == InitOverride /\ [][Next]_vars

\* ------------------------------------------------- build_time_series_frame
\* ast.literal_eval(row) of a cell of bucketed_dwell_times: the dictionary
\* the text denotes, as its (bucket, visits) pairs; None for a text that
\* denotes no dictionary
LiteralEval(row) ==
  CASE row = "{'<5': 2}" -> Some(<< <<"<5", 2>> >>)
    [] row = "{'5-20': 1, '>240': 1}" -> Some(<< <<"5-20", 1>>, <<">240", 1>> >>)
    [] row = "{'<5': 4}" -> Some(<< <<"<5", 4>> >>)
    [] OTHER -> None

\* bucket_multipliers, in halves of a minute
BucketMultipliers(bucket) ==
  CASE bucket = "<5" -> 5
    [] bucket = "5-20" -> 25
    [] bucket = "21-60" -> 81
    [] bucket = "61-240" -> 301
    [] bucket = ">240" -> 480

RECURSIVE TotalDwell(_)
\* total_dwell of one row, in halves of a minute
TotalDwell(dwell_buckets) ==
  IF dwell_buckets = <<>> THEN 0
  ELSE Head(dwell_buckets)[2] * BucketMultipliers(Head(dwell_buckets)[1])
       + TotalDwell(Tail(dwell_buckets))

\* calc_dwells(new_df['bucketed_dwell_times']): the list of totals, one
\* for each row
calc_dwells(frame) ==
  LET cell(r) == Cell(frame, r, "bucketed_dwell_times")
  IN IF \E r \in 1..Len(frame.rows) : IsNone(LiteralEval(cell(r)))
     THEN [err |-> "ValueError", val |-> <<>>]
     ELSE [err |-> "",
           val |-> [r \in 1..Len(frame.rows) |->
                      [halves |-> TotalDwell(Val(LiteralEval(cell(r))))]]]

\* new_df['est_dwell'] = values: a new last column
WithColumn(frame, c, values) ==
  Table(Append(frame.columns, c), frame.index,
        [r \in 1..Len(frame.rows) |-> Append(frame.rows[r], values[r])])

\* SeriesEntry, but the suffix is appended as it is, without the
\* underscore (x + suffixes[idx])
SeriesEntry_bare(entry, suffix, built) ==
  LET file_entry == IF IsList(entry) THEN entry.items ELSE << entry >>
      new_df == Val(built.val)
      dwells == calc_dwells(new_df)
      with_dwell == WithColumn(new_df, "est_dwell", dwells.val)
      none == [err |-> "", frame |-> NoTable, columns |-> <<>>]
  IN IF file_entry = <<>> THEN [none EXCEPT !.err = "IndexError"]
     ELSE IF built.err /= "" THEN [none EXCEPT !.err = built.err]
     ELSE IF IsNone(built.val) THEN [none EXCEPT !.err = "TypeError"]
     ELSE IF ~HasColumn(new_df, "bucketed_dwell_times") THEN [none EXCEPT !.err = "KeyError"]
     ELSE IF dwells.err /= "" THEN [none EXCEPT !.err = dwells.err]
     ELSE [err |-> "", frame |-> AddSuffix(with_dwell, suffix),
           columns |-> with_dwell.columns]

\* The body of the loop of build_time_series_frame for one entry of
\* files, built being the outcome of DFBuilder(...).build(): what it
\* raises or the frame new_df it joins, with the columns new_df had
\* before the suffix was appended.
SeriesEntry(entry, suffix, built) ==
  LET file_entry == IF IsList(entry) THEN entry.items ELSE << entry >>
      new_df == Val(built.val)
      dwells == calc_dwells(new_df)
      with_dwell == WithColumn(new_df, "est_dwell", dwells.val)
      none == [err |-> "", frame |-> NoTable, columns |-> <<>>]
  IN IF file_entry = <<>> THEN [none EXCEPT !.err = "IndexError"]
     ELSE IF built.err /= "" THEN [none EXCEPT !.err = built.err]
     ELSE IF IsNone(built.val) THEN [none EXCEPT !.err = "TypeError"]
     ELSE IF ~HasColumn(new_df, "bucketed_dwell_times") THEN [none EXCEPT !.err = "KeyError"]
     ELSE IF dwells.err /= "" THEN [none EXCEPT !.err = dwells.err]
     ELSE [err |-> "", frame |-> AddSuffix(with_dwell, "_" \o suffix),
           columns |-> with_dwell.columns]

\* What the steps of build_time_series_frame leave alone: the builders
\* it constructs are its own.
SeriesFrame ==
  UNCHANGED << call, cls, args, self, state, pc, full_file_list, idx, big_df, file_p,
               gen, open, opened, yielded, combined, error, result, returned >>

\* if len(files) != len(suffixes): raise ValueError
series_check ==
  /\ series.pc = "start"
  /\ SeriesFrame
  /\ IF Len(series.files) /= Len(series.suffixes)
     THEN series' = [series EXCEPT !.pc = "raised", !.err = "ValueError"]
     ELSE series' = [series EXCEPT !.pc = "loop"]

\* for idx, file_entry in enumerate(files): one entry, from the
\* construction of its DFBuilder to the join with big_df
series_entry ==
  /\ series.pc = "loop"
  /\ series.idx < Len(series.files)
  /\ SeriesFrame
  /\ LET entry == series.files[series.idx + 1]
         file_entry == IF IsList(entry) THEN entry.items ELSE << entry >>
         patterns == [i \in 1..Len(file_entry) |-> file_entry[i].str]
     IN \E file_list \in Expand(Val(args.path), patterns) :
        \E built \in { BuildOf(file_list) } :
        \E new \in { SeriesEntry(entry, series.suffixes[series.idx + 1], built) } :
          LET joined == IF IsNone(series.big_df) THEN Ok(new.frame)
                        ELSE Merge(Val(series.big_df), new.frame, series.how, None,
                                   TRUE, TRUE, <<"_x", "_y">>)
              sources == IF file_entry = <<>> THEN series.sources
                         ELSE Append(series.sources, file_list)
          IN IF new.err /= ""
             THEN series' = [series EXCEPT !.pc = "raised", !.err = new.err,
                                           !.sources = sources]
             ELSE IF joined.err /= ""
             THEN series' = [series EXCEPT !.pc = "raised", !.err = joined.err,
                                           !.sources = sources]
             ELSE series' = [series EXCEPT !.idx = series.idx + 1,
                                           !.big_df = Some(joined.val),
                                           !.parts = Append(series.parts, new.columns),
                                           !.sources = sources]

\* return big_df
series_return ==
  /\ series.pc = "loop"
  /\ series.idx = Len(series.files)
  /\ SeriesFrame
  /\ series' = [series EXCEPT !.pc = "returned", !.result = series.big_df]

\* the entries of files: a pattern, or a list of patterns
SeriesEntries ==
  { Str("p1.csv"), Str("p2.csv"), Str("a.csv"), Str("x*.csv"),
    Lst(<< Str("p[12].csv") >>), Lst(<<>>) }
SeriesSuffixes == { "a", "b" }
SeriesColumns == { <<>>, <<"*">>, <<"bucketed_dwell_times">> }

\* A call build_time_series_frame(files, 'data/', columns, suffixes,
\* how=how, **kwargs); the builders it constructs are DFBuilders with
\* these columns and parser parameters.
InitSeries ==
  /\ cls = "DFBuilder"
  /\ \E c \in SeriesColumns, kw \in { NoParams, IndexColParams } :
       /\ args = [Default EXCEPT !.path = Some("data/"), !.columns = Some(c),
                                 !.kwargs = kw]
       /\ self = [NoSelf EXCEPT !._files = Some(<<>>), !._path = "data/",
                                !._keep_columns = Some(c), !._file_params = kw]
  /\ \E f \in SeqsUpTo(SeriesEntries, MaxSeries),
        x \in SeqsUpTo(SeriesSuffixes, MaxSeries), h \in {"inner", "left"} :
       series = [NoSeries EXCEPT !.pc = "start", !.files = f, !.suffixes = x, !.how = h]
  /\ state = "Series"
  /\ pc = "idle"
  /\ full_file_list = <<>>
  /\ idx = 0
  /\ big_df = None
  /\ file_p = None
  /\ gen = NoGen
  /\ open = {}
  /\ opened = <<>>
  /\ yielded = <<>>
  /\ combined = <<>>
  /\ error = ""
  /\ result = None
  /\ returned = <<>>
  /\ call = NoCall

NextSeries ==
  \/ series_check
  \/ series_entry
  \/ series_return

SpecSeries == InitSeries /\ [][NextSeries]_vars

\* One build() run to its end.  build() is straight-line code on one
\* thread: the interpreter goes on with its next statement as long as
\* there is one, so a step of the program that stays possible is taken.
\* The finalizer of an unreferenced file object (Collect) is owed nothing.
Step ==
  \/ DFBuilder_init
  \/ build_start
  \/ build_for
  \/ file_open_start
  \/ file_open_resume
  \/ file_open_loop
  \/ build_body
  \/ build_return

\* The constructions whose builds are followed to their end: every class
\* over one pattern of every kind, over sources that cannot be opened and
\* over two sources with a suffix each, and the base builder without
\* sources, with the column list unset or the wildcard.
LiveConfigs ==
  { c \in Configs : /\ IsNone(c.args.files) \/ Len(Val(c.args.files)) <= 1
                    /\ c.args.columns \in { None, Some(<<"*">>) } }
    \cup LockedConfigs \cup SuffixConfigs

InitLive ==
  /\ \E c \in LiveConfigs : cls = c.cls /\ args = c.args
  /\ self = NoSelf
  /\ state = "New"
  /\ pc = "init"
  /\ full_file_list = <<>>
  /\ idx = 0
  /\ big_df = None
  /\ file_p = None
  /\ gen = NoGen
  /\ open = {}
  /\ opened = <<>>
  /\ yielded = <<>>
  /\ combined = <<>>
  /\ error = ""
  /\ result = None
  /\ returned = <<>>
  /\ call = NoCall
  /\ series = NoSeries

SpecLive == InitLive /\ [][Next]_vars /\ WF_vars(Step)

\* Builders whose accessors are called before build(): the base builder
\* over one and over two sources.
AccessConfigs ==
  { [cls |-> "DFBuilder",
     args |-> [Default EXCEPT !.files = Some(l), !.path = Some("data/"),
                              !.columns = c]] :
      l \in { << Str("a.csv") >>, << Str("a.csv"), Str("v.csv") >> },
      c \in { Some(<<"*">>), Some(<<"id", "val">>) } }

InitAccess ==
  /\ \E c \in AccessConfigs : cls = c.cls /\ args = c.args
  /\ self = NoSelf
  /\ state = "New"
  /\ pc = "init"
  /\ full_file_list = <<>>
  /\ idx = 0
  /\ big_df = None
  /\ file_p = None
  /\ gen = NoGen
  /\ open = {}
  /\ opened = <<>>
  /\ yielded = <<>>
  /\ combined = <<>>
  /\ error = ""
  /\ result = None
  /\ returned = <<>>
  /\ call = NoCall
  /\ series = NoSeries

NextAccess ==
  \/ DFBuilder_init
  \/ DFBuilder_path
  \/ DFBuilder_files
  \/ DFBuilder_columns
  \/ DFBuilder_suffixes
  \/ build_start
  \/ build_for
  \/ file_open_start
  \/ file_open_resume
  \/ build_body
  \/ build_return
  \/ Collect

SpecAccess == InitAccess /\ [][NextAccess]_vars

\* ================================================================== claims
\* build() is over: it returned or an exception left it
BuildOver == state \in {"Done", "Failed"}
\* the streams file_open yielded for the source at position i
YieldedOf(i) ==
  LET mine(y) == y.idx = i
      ys == SelectSeq(yielded, mine)
  IN [k \in 1..Len(ys) |-> ys[k].stream]
\* the generator of the source at position i has been run to its end
SourceOver(i) == state \in {"Building", "Done"} /\ idx > i
\* the loop body has been run for the k-th yielded stream
BodyRun(k) == k < Len(yielded) \/ (k = Len(yielded) /\ ~(state = "Building" /\ pc = "body"))

\* C1: build() over a.csv (id,val = 1,10 / 2,20) then b.csv (id,val =
\* 1,100) with columns=[id,val], axis=join, how=inner, on=id and
\* suffixes=[_x,_y] returns a table of exactly one row, id=1, val_x=10,
\* val_y=100.
C1_Scenario ==
  /\ args.files = Some(<<Str("a.csv"), Str("b.csv")>>)
  /\ args.path = Some("data/")
  /\ args.columns = Some(<<"id", "val">>)
  /\ args.axis = 1 /\ args.how = "inner" /\ args.on = Some(<<"id">>)
  /\ ~args.left_index /\ ~args.right_index
  /\ args.suffixes = Some(<<"_x", "_y">>)
C1_EndToEnd ==
  (C1_Scenario /\ BuildOver) =>
    /\ state = "Done"
    /\ ~IsNone(result)
    /\ Val(result).columns = <<"id", "val_x", "val_y">>
    /\ Val(result).rows = << <<"1", "10", "100">> >>

\* C2: in join mode with suffixes [_a,_b], a build from two sources that
\* both hold a column named value returns a table in which that name
\* appears as exactly the two columns value_a and value_b and never as a
\* bare value.
Count(s, x) == Cardinality({i \in 1..Len(s) : s[i] = x})
C2_JoinSuffixing ==
  ( /\ state = "Done"
    /\ self._axis = 1
    /\ self._suffixes = Some(<<"_a", "_b">>)
    /\ Len(full_file_list) = 2
    /\ Len(combined) = 2
    /\ \A k \in 1..2 : HasColumn(combined[k].frame, "value") ) =>
    /\ ~IsNone(result)
    /\ Count(Val(result).columns, "value_a") = 1
    /\ Count(Val(result).columns, "value_b") = 1
    /\ Count(Val(result).columns, "value") = 0

\* C3: for a builder whose source list is empty or was never set
\* (files=None or files=[]), build() fails with a configuration error and
\* opens no file or stream.
C3_NoSourcesFails ==
  ((IsNone(args.files) \/ args.files = Some(<<>>)) /\ BuildOver) =>
    /\ state = "Failed"
    /\ error = "ValueError"
    /\ opened = <<>>

\* C4: when the column list is left unset or empty, build() keeps all
\* columns: the list is replaced by the full column list of the first
\* parsed table, as for ['*'], and the build does not fail because of the
\* empty list.
C4_DefaultColumnsKeepAll ==
  ( /\ args.columns \in { None, Some(<<>>) }
    /\ yielded /= <<>>
    /\ BodyRun(1)
    /\ ReadCsv(yielded[1].stream).err = "" ) =>
    /\ self._keep_columns = Some(ReadCsv(yielded[1].stream).val.columns)
    /\ ~(state = "Failed" /\ pc = "body" /\ error = "IndexError" /\ combined = <<>>)

\* C5: with columns=['*'] the column list is fixed to the columns of the
\* first parsed table: every table folded into the accumulator is the
\* parsed table restricted to exactly those columns, and a later table
\* that lacks one of them makes build() fail with KeyError; it is never
\* folded and no table is returned.
FirstColumns == ReadCsv(yielded[1].stream).val.columns
Lacks(frame, columns) == \E i \in 1..Len(columns) : ~HasColumn(frame, columns[i])
C5_WildcardSticky ==
  ( /\ args.columns = Some(<<"*">>)
    /\ yielded /= <<>>
    /\ BodyRun(1)
    /\ ReadCsv(yielded[1].stream).err = "" ) =>
    /\ self._keep_columns = Some(FirstColumns)
    /\ \A k \in 1..Len(combined) :
         /\ combined[k].frame.columns = FirstColumns
         /\ combined[k].frame =
              GetColumns(ReadCsv(combined[k].stream).val, FirstColumns).val
         /\ ~Lacks(ReadCsv(combined[k].stream).val, FirstColumns)
    /\ \A k \in 2..Len(yielded) :
         ( /\ BodyRun(k)
           /\ ReadCsv(yielded[k].stream).err = ""
           /\ Lacks(ReadCsv(yielded[k].stream).val, FirstColumns) ) =>
           /\ state = "Failed" /\ pc = "body" /\ error = "KeyError"
           /\ k = Len(yielded)
           /\ IsNone(result)
C5_Witness ==
  /\ args.columns = Some(<<"*">>)
  /\ state = "Failed" /\ pc = "body" /\ error = "KeyError"
  /\ Len(combined) = 1
  /\ Len(yielded) = 2
  /\ Lacks(ReadCsv(yielded[2].stream).val, FirstColumns)
\* the other half of C5: a later table with more columns than the first
\* has been cut down to the first table's columns and folded
C5_WitnessProjected ==
  /\ args.columns = Some(<<"*">>)
  /\ Len(combined) = 2
  /\ ReadCsv(combined[2].stream).val.columns /= combined[2].frame.columns
  /\ combined[2].frame.columns = FirstColumns

\* C6 as claimed: with a suffix list whose length differs from the number
\* of expanded sources, build() fails instead of returning a table.
C6_MismatchFails ==
  ( /\ ~IsNone(self._suffixes)
    /\ state = "Done"
    /\ Len(Val(self._suffixes)) /= Len(full_file_list) ) => IsNone(result)

\* C6 as amended: build() never compares the suffix list with the source
\* list.  A table is folded only for a source whose position has an entry
\* in the list; the first stream of a source beyond the list that parses
\* and projects makes build() fail with IndexError at self._suffixes[idx],
\* and that is the only way the list makes build() fail.
C6_SuffixBounds ==
  ~IsNone(self._suffixes) =>
    LET n == Len(Val(self._suffixes)) IN
    /\ \A k \in 1..Len(combined) : combined[k].idx < n
    /\ ( /\ state = "Failed" /\ pc = "body" /\ error = "IndexError"
         /\ Val(self._keep_columns) /= <<>> ) => idx >= n
    /\ \A k \in 1..Len(yielded) :
         ( /\ BodyRun(k)
           /\ yielded[k].idx >= n
           /\ ReadCsv(yielded[k].stream).err = ""
           /\ Val(self._keep_columns) /= <<>>
           /\ ~Lacks(ReadCsv(yielded[k].stream).val, Val(self._keep_columns)) ) =>
           /\ state = "Failed" /\ pc = "body" /\ error = "IndexError"
           /\ k = Len(yielded)
C6_Witness ==
  /\ ~IsNone(self._suffixes)
  /\ state = "Failed" /\ pc = "body" /\ error = "IndexError"
  /\ idx >= Len(Val(self._suffixes))
  /\ combined /= <<>>
  /\ Val(self._keep_columns) /= <<>>

\* the sources the zip branch of a subclass's file_open handles
IsZipSource(i) ==
  /\ ~BaseFileOpen
  /\ i + 1 <= Len(full_file_list)
  /\ EndsWith(full_file_list[i + 1], "zip")

\* C7: for a zip archive with exactly one qualifying entry and two
\* non-qualifying entries, the zip branch of file_open yields exactly one
\* stream, the qualifying entry.
C7_SingleEntryYielded ==
  \A i \in 0..(Len(full_file_list) - 1) :
    ( /\ IsZipSource(i)
      /\ SourceOver(i)
      /\ Len(ZContents(full_file_list[i + 1])) = 1
      /\ Len(File(full_file_list[i + 1]).entries) = 3 ) =>
      /\ Len(YieldedOf(i)) = 1
      /\ YieldedOf(i)[1].member = Some(ZContents(full_file_list[i + 1])[1])

\* C8: for every builder subclass, a zip archive with zero or exactly one
\* qualifying entry makes file_open yield no stream and raise no error.
C8_FewEntriesYieldNothing ==
  \A i \in 0..(Len(full_file_list) - 1) :
    ( /\ IsZipSource(i)
      /\ Len(ZContents(full_file_list[i + 1])) <= 1 ) =>
      /\ YieldedOf(i) = <<>>
      /\ ~(state = "Failed" /\ pc = "next" /\ idx = i)

\* C9: for a zip archive with n > 1 qualifying entries, file_open yields
\* exactly n streams, one per qualifying entry, in archive order, in the
\* core builders and the pattern builders alike.
C9_AllEntriesYielded ==
  \A i \in 0..(Len(full_file_list) - 1) :
    ( /\ IsZipSource(i)
      /\ SourceOver(i)
      /\ Len(ZContents(full_file_list[i + 1])) > 1 ) =>
      [k \in 1..Len(YieldedOf(i)) |-> Val(YieldedOf(i)[k].member)]
        = ZContents(full_file_list[i + 1])

\* C10: at every point of a build() at most one stream yielded by
\* file_open is open, in DFBuilder and in every subclass.
YieldedOpen == { h \in open : \E k \in 1..Len(yielded) : yielded[k].stream = h }
C10_OneStreamOpen == Cardinality(YieldedOpen) <= 1

\* C11: when a source cannot be opened, build() fails with the OSError of
\* that open, in DFBuilder and in every subclass: the failure is never
\* caught and replaced by another outcome, and build() never goes on past
\* the source.
OpenFailed ==
  /\ state = "Failed" /\ pc = "next"
  /\ gen.pos = "start" /\ gen.file \in Unreadable
C11_OpenFailurePropagates ==
  /\ OpenFailed => error = "OSError"
  /\ \A i \in 1..Len(full_file_list) :
       (full_file_list[i] \in Unreadable /\ idx >= i - 1 /\ state /= "Configured")
         => (idx = i - 1 /\ pc \in {"for", "next"} /\ state \in {"Building", "Failed"})
\* the same for the subclasses alone, whose handlers re-raise
C11_SubclassesPropagate ==
  ~BaseFileOpen => C11_OpenFailurePropagates
C11_SubclassWitness ==
  ~BaseFileOpen /\ OpenFailed /\ error = "OSError" /\ combined /= <<>>

\* C12: if opening, parsing, projecting or combining fails for a source,
\* build() returns no table: while an exception has left build() nothing
\* has been returned, whatever the accumulator held by then.
C12_NoPartialResult ==
  error /= "" => (state \in {"NoObject", "Failed"} /\ IsNone(result) /\ returned = <<>>)
\* a failure after tables have been folded: the accumulator holds them
C12_Witness ==
  /\ state = "Failed" /\ error /= ""
  /\ ~IsNone(big_df) /\ Len(combined) >= 1
  /\ IsNone(result)
\* the four stages the failure can come from
C12_FailedOpening == C12_Witness /\ pc = "next" /\ error \in {"OSError", "UnboundLocalError"}
C12_FailedParsing == C12_Witness /\ pc = "body" /\ error = "ParserError"
C12_FailedProjecting == C12_Witness /\ pc = "body" /\ error = "KeyError" /\ self._axis = 0
C12_FailedCombining == C12_Witness /\ pc = "body" /\ error \in {"ValueError", "MergeError"}

\* C13: the first table produced in a build becomes the accumulator with
\* its rows and row labels unchanged, and with suffixes configured each of
\* its column names is extended with the first entry of the suffix list,
\* whichever source the table came from, before anything is stacked on it
\* or joined to it; until then there is no accumulator.
Suffixed(columns) ==
  IF IsNone(self._suffixes) THEN columns
  ELSE [k \in 1..Len(columns) |-> columns[k] \o Val(self._suffixes)[1]]
\* the first stream yielded has been parsed, projected and cleaned, and
\* the suffix list has an entry for its source
FirstProduced ==
  /\ yielded /= <<>>
  /\ BodyRun(1)
  /\ ReadCsv(yielded[1].stream).err = ""
  /\ Val(self._keep_columns) /= <<>>
  /\ self_clean(ReadCsv(yielded[1].stream).val, Val(self._keep_columns)).err = ""
  /\ IsNone(self._suffixes) \/ yielded[1].idx < Len(Val(self._suffixes))
C13_FirstTableIsAccumulator ==
  /\ combined = <<>> => IsNone(big_df)
  /\ FirstProduced =>
       /\ Len(combined) >= 1
       /\ combined[1].stream = yielded[1].stream
       /\ combined[1].frame =
            self_clean(ReadCsv(yielded[1].stream).val, Val(self._keep_columns)).val
  /\ Len(combined) = 1 =>
       /\ ~IsNone(big_df)
       /\ Val(big_df).rows = combined[1].frame.rows
       /\ Val(big_df).index = combined[1].frame.index
       /\ Val(big_df).columns = Suffixed(combined[1].frame.columns)
\* the first table comes from the second source and has been renamed
\* with the first suffix
C13_Witness ==
  /\ ~IsNone(self._suffixes)
  /\ FirstProduced
  /\ Len(combined) = 1
  /\ combined[1].idx = 1
  /\ Val(self._suffixes)[1] /= Val(self._suffixes)[2]
  /\ Val(big_df).columns = <<"id_x", "val_x">>
  /\ Val(big_df).rows = T_a.rows

\* C14: in join mode with no suffix list configured both sides of every
\* join get the empty suffix, and a join in which a column name that is no
\* join key occurs on both sides fails (ValueError, or KeyError when a
\* configured key is missing): no table with duplicate or renamed columns
\* is produced, the accumulator stays as it was and nothing is returned.
\* the k-th yielded stream has been parsed, projected and cleaned
Produced(k) ==
  /\ BodyRun(k)
  /\ ReadCsv(yielded[k].stream).err = ""
  /\ Val(self._keep_columns) /= <<>>
  /\ self_clean(ReadCsv(yielded[k].stream).val, Val(self._keep_columns)).err = ""
FrameOf(k) ==
  self_clean(ReadCsv(yielded[k].stream).val, Val(self._keep_columns)).val
\* the join keys of left.merge(right) as build() calls it
JoinKeys(left, right) ==
  IF self._left_index /\ self._right_index /\ IsNone(self._on) THEN {}
  ELSE IF IsNone(self._on) THEN Range(left.columns) \cap Range(right.columns)
  ELSE Range(Val(self._on))
Collide(left, right) ==
  (Range(left.columns) \cap Range(right.columns)) \ JoinKeys(left, right) /= {}
KeyMissing(left, right) ==
  \E c \in JoinKeys(left, right) : ~HasColumn(left, c) \/ ~HasColumn(right, c)
C14_UnsuffixedCollisionFails ==
  (self._axis = 1 /\ IsNone(self._suffixes) /\ state /= "New") =>
    /\ \A i \in 0..Len(full_file_list) : TmpSuffixes(self._suffixes, i).val = <<"", "">>
    /\ \A k \in 2..Len(combined) :
         /\ ~Collide(combined[k - 1].frame, combined[k].frame)
         /\ Unique(combined[k].frame.columns)
    /\ ~IsNone(big_df) => Unique(Val(big_df).columns)
    /\ \A k \in 2..Len(yielded) :
         (Produced(k) /\ Len(combined) >= k - 1 /\ ~IsNone(big_df)
            /\ Collide(IF k = Len(combined) + 1 THEN Val(big_df) ELSE combined[k - 1].frame,
                       FrameOf(k))) =>
           /\ state = "Failed" /\ pc = "body"
           /\ k = Len(yielded) /\ Len(combined) = k - 1
           /\ error = IF KeyMissing(Val(big_df), FrameOf(k)) THEN "KeyError"
                       ELSE "ValueError"
           /\ IsNone(result)
C14_Witness ==
  /\ self._axis = 1 /\ IsNone(self._suffixes)
  /\ state = "Failed" /\ pc = "body" /\ error = "ValueError"
  /\ Len(yielded) = 2 /\ Len(combined) = 1
  /\ Produced(2)
  /\ Collide(Val(big_df), FrameOf(2))
  /\ ~KeyMissing(Val(big_df), FrameOf(2))
\* without a collision the join goes through
C14_WitnessJoined ==
  /\ self._axis = 1 /\ IsNone(self._suffixes)
  /\ state = "Done" /\ Len(combined) = 2 /\ ~IsNone(result)

\* C15: build() folds tables strictly in the order of the expanded source
\* list and, within a source, in the order its streams are yielded: the
\* streams come from the sources in list order, each is parsed and folded
\* before anything else is opened, each is folded once, and every source
\* has had its turn when build() returns.
C15_InOrder ==
  /\ \A k \in 1..Len(yielded) :
       /\ yielded[k].idx + 1 <= Len(full_file_list)
       /\ yielded[k].stream.file = full_file_list[yielded[k].idx + 1]
       /\ \A j \in 1..(k - 1) :
            /\ yielded[j].idx <= yielded[k].idx
            /\ yielded[j].stream /= yielded[k].stream
            /\ yielded[j].stream.n < yielded[k].stream.n
  /\ Len(combined) <= Len(yielded)
  /\ Len(yielded) <= Len(combined) + 1
  /\ \A k \in 1..Len(combined) :
       /\ combined[k].stream = yielded[k].stream
       /\ combined[k].idx = yielded[k].idx
  /\ (state = "Building" /\ pc = "body") =>
       /\ Len(yielded) = Len(combined) + 1
       /\ opened[Len(opened)] = yielded[Len(yielded)].stream
       /\ yielded[Len(yielded)].idx = idx
  /\ (state = "Building" /\ pc \in {"for", "next", "return"}) =>
       Len(yielded) = Len(combined)
  /\ state \in {"Building", "Failed"} => idx <= Len(full_file_list)
  /\ state = "Done" => idx = Len(full_file_list)
  /\ (BaseFileOpen /\ state = "Done") =>
       /\ Len(combined) = Len(full_file_list)
       /\ \A k \in 1..Len(combined) : combined[k].idx = k - 1
\* an archive of two streams and then a text file, all folded in order
C15_Witness ==
  /\ state = "Done"
  /\ Len(full_file_list) = 2
  /\ full_file_list[1] /= full_file_list[2]
  /\ Len(combined) = 3
  /\ combined[1].idx = 0 /\ combined[2].idx = 0 /\ combined[3].idx = 1

\* the cuts of a list into consecutive non-empty sub-lists
RECURSIVE PartsFrom(_, _, _)
PartsFrom(files, start, cuts) ==
  IF start > Len(files) THEN <<>>
  ELSE LET end == CHOOSE c \in (cuts \cup {Len(files)}) :
                    c >= start /\ \A d \in (cuts \cup {Len(files)}) : d >= start => c <= d
       IN << SubSeq(files, start, end) >> \o PartsFrom(files, end + 1, cuts)
Partitions(files) ==
  { PartsFrom(files, 1, cuts) : cuts \in SUBSET (1..(Len(files) - 1)) }

RECURSIVE ConcatAll(_)
\* pd.concat of the results of building each part, if every part builds
ConcatAll(parts) ==
  IF Len(parts) = 1 THEN BuildOf(parts[1])
  ELSE LET front == ConcatAll(SubSeq(parts, 1, Len(parts) - 1))
           last == BuildOf(parts[Len(parts)])
       IN IF front.err /= "" THEN front
          ELSE IF last.err /= "" THEN last
          ELSE IF IsNone(front.val) \/ IsNone(last.val) THEN Throws("TypeError")
          ELSE Returns(Some(Concat(Val(front.val), Val(last.val)).val))

\* the rows of a table, each as its set of (column, value) pairs
RowsOf(t) ==
  [r \in 1..Len(t.rows) |-> { <<t.columns[k], t.rows[r][k]>> : k \in 1..Len(t.columns) }]
\* the same multiset of rows
SameRows(t, u) ==
  /\ Len(t.rows) = Len(u.rows)
  /\ \A x \in Range(RowsOf(t)) \cup Range(RowsOf(u)) :
       Count(RowsOf(t), x) = Count(RowsOf(u), x)

\* a build of the base builder in stack mode has returned a table
Stacked ==
  /\ cls = "DFBuilder" /\ self._axis = 0
  /\ state = "Done" /\ ~IsNone(result)
\* every source has the columns of the first one
SameSchema ==
  \A i \in 1..Len(full_file_list) :
    ReadCsv(Handle(0, full_file_list[i], None, "local", "rb")).val.columns =
      ReadCsv(Handle(0, full_file_list[1], None, "local", "rb")).val.columns

\* C16 as claimed: in stack mode, for any source list and any cut of it
\* into consecutive sub-lists, the rows of build() over the whole list
\* are, as a multiset, the rows of the concatenation of the results of
\* building each sub-list separately.
C16_StackPartition ==
  Stacked =>
    \A parts \in Partitions(full_file_list) :
      /\ ConcatAll(parts).err = ""
      /\ ~IsNone(ConcatAll(parts).val)
      /\ SameRows(Val(result), Val(ConcatAll(parts).val))

\* C16 as amended: the same, for a build without a suffix list whose
\* column list is not the wildcard unless all sources have the same
\* columns; and under these conditions build() over the whole list fails
\* only if building one of the sub-lists fails.
Partitionable ==
  /\ cls = "DFBuilder" /\ self._axis = 0
  /\ IsNone(self._suffixes)
  /\ args.columns /= Some(<<"*">>) \/ SameSchema
C16_StackPartitionSameColumns ==
  /\ (cls = "DFBuilder" /\ state = "Done") =>
       BuildOf(full_file_list) = Returns(result)
  /\ (cls = "DFBuilder" /\ state = "Failed" /\ pc \in {"next", "body"}) =>
       BuildOf(full_file_list) = Throws(error)
  /\ (Partitionable /\ Stacked) =>
       \A parts \in Partitions(full_file_list) :
         /\ ConcatAll(parts).err = ""
         /\ ~IsNone(ConcatAll(parts).val)
         /\ SameRows(Val(result), Val(ConcatAll(parts).val))
  /\ (Partitionable /\ state = "Failed" /\ pc \in {"next", "body"}) =>
       \A parts \in Partitions(full_file_list) : ConcatAll(parts).err /= ""
C16_Witness ==
  /\ Partitionable /\ Stacked
  /\ Len(full_file_list) = 3
  /\ Cardinality(Partitions(full_file_list)) = 4
  /\ Len(Val(result).rows) >= 4

\* C17: for a single plain-text source yielding one stream, build()
\* returns the parser's table for that stream restricted to the
\* configured columns (all of them when the list is the wildcard or left
\* unset), with the same rows, row order and column names.
\* the columns the configuration asks for, of a table with the columns all
Configured(all) ==
  IF args.columns \in { None, Some(<<>>), Some(<<"*">>) } THEN all
  ELSE Val(args.columns)
\* build() was given one source, a text file with the configured columns,
\* has got its stream and has run the body for it
SingleSource ==
  /\ cls \in Classes
  /\ Len(returned) = 0 \/ state = "Done"
  /\ Len(full_file_list) = 1
  /\ EndsWith(full_file_list[1], "csv")
  /\ Len(yielded) = 1
  /\ BodyRun(1)
  /\ ReadCsv(yielded[1].stream).err = ""
  /\ ~Lacks(ReadCsv(yielded[1].stream).val,
            Configured(ReadCsv(yielded[1].stream).val.columns))
C17_SingleSourceProjection ==
  (SingleSource /\ Len(returned) <= 1) =>
    LET parsed == ReadCsv(yielded[1].stream).val
        expected == GetColumns(parsed, Configured(parsed.columns)).val
    IN /\ state /= "Failed"
       /\ state = "Done" =>
            /\ ~IsNone(result)
            /\ Val(result).columns = expected.columns
            /\ Val(result).rows = expected.rows
            /\ Val(result).index = expected.index
\* the same for a builder with a column list and without a suffix list
C17_ListedColumnsNoSuffixes ==
  (args.columns \notin { None, Some(<<>>) } /\ IsNone(args.suffixes))
    => C17_SingleSourceProjection
C17_ListedWitness ==
  /\ SingleSource /\ state = "Done"
  /\ args.columns = Some(<<"id", "val">>) /\ IsNone(args.suffixes)
  /\ ReadCsv(yielded[1].stream).val.columns = <<"id", "val", "value">>
  /\ Val(result).columns = <<"id", "val">>

\* a build() after one that has returned is under way or over
LaterRun ==
  /\ Len(returned) >= 1
  /\ state \in {"Building", "Failed"} \/ Len(returned) >= 2
\* the first build() replaced the wildcard by a column list
WildcardResolved ==
  /\ args.columns = Some(<<"*">>)
  /\ Len(returned) >= 1
  /\ returned[1].columns /= Some(<<"*">>)
RECURSIVE StreamsOf(_)
\* the streams yielded in the first n builds that returned
StreamsOf(n) == IF n = 0 THEN 0 ELSE returned[n].streams + StreamsOf(n - 1)

\* C18: build() can be called again on a builder after it has returned;
\* the call enumerates the sources again and opens, parses and folds every
\* one of them again, and when the first run replaced the wildcard, the
\* later run projects every source, its first included, against the
\* column list the first run fixed.
C18_RebuildReusesColumns ==
  /\ \A r \in 1..Len(returned) :
       /\ returned[r].sources \in Expand(self._path, Blocks(Val(self._files)))
       /\ BaseFileOpen => returned[r].streams = Len(returned[r].sources)
  /\ (state = "Done" /\ returned /= <<>>) =>
       /\ returned[Len(returned)].streams = Len(yielded)
       /\ returned[Len(returned)].result = result
       /\ Len(combined) = Len(yielded)
       /\ StreamsOf(Len(returned)) <= Len(opened)
       /\ \A k \in 1..Len(yielded) :
            yielded[k].stream.n > StreamsOf(Len(returned) - 1)
  /\ (LaterRun /\ WildcardResolved) =>
       /\ self._keep_columns = returned[1].columns
       /\ \A k \in 1..Len(combined) :
            /\ combined[k].frame.columns = Val(returned[1].columns)
            /\ combined[k].frame =
                 GetColumns(combined[k].given, Val(returned[1].columns)).val
       /\ \A k \in 1..Len(yielded) :
            (Produced(k) /\ Lacks(ReadCsv(yielded[k].stream).val, Val(returned[1].columns)))
              => (state = "Failed" /\ error = "KeyError")
\* the second run starts with a source of three columns and cuts it down
\* to the two columns the first run fixed
C18_Witness ==
  /\ LaterRun /\ WildcardResolved
  /\ state = "Done" /\ Len(returned) = 2
  /\ returned[1].columns = Some(<<"id", "val">>)
  /\ combined[1].given.columns = <<"id", "val", "value">>
  /\ combined[1].frame.columns = <<"id", "val">>
  /\ Val(result).columns = <<"id", "val">>

\* C19: every stream yielded by a remote-backend builder (CoreBuilderR,
\* PatternBuilderR) is obtained through the object-store handle, in the
\* csv case, the zip case and the case of any other suffix; none is
\* opened from the local file system.
IsRemote == cls \in {"CoreBuilderR", "PatternBuilderR"}
C19_RemoteStreamsViaStore ==
  IsRemote => \A k \in 1..Len(yielded) : yielded[k].stream.via = "s3"
\* what holds: CoreBuilderR in all three cases, PatternBuilderR in the
\* case of another suffix
C19_CoreRemoteViaStore ==
  /\ cls = "CoreBuilderR" => \A k \in 1..Len(opened) : opened[k].via = "s3"
  /\ cls = "PatternBuilderR" =>
       \A k \in 1..Len(opened) :
         opened[k].via = IF EndsWith(opened[k].file, "csv") \/ EndsWith(opened[k].file, "zip")
                         THEN "local" ELSE "s3"
C19_CoreRemoteWitness ==
  /\ cls = "CoreBuilderR"
  /\ \E k \in 1..Len(yielded) : ~IsNone(yielded[k].stream.member)
  /\ \E k \in 1..Len(yielded) : EndsWith(yielded[k].stream.file, "csv")

\* C20: when a subclass replaces clean, every table handed to the
\* combiner is still restricted to exactly the configured column list:
\* build() projects by itself and the cleaner receives a table that has
\* been projected already.
C20_ProjectionIndependent ==
  cls = CleanBuilder =>
    \A k \in 1..Len(combined) :
      /\ combined[k].given.columns = Val(self._keep_columns)
      /\ combined[k].frame.columns = Val(self._keep_columns)
\* what holds: with DFBuilder.clean in place the folded table has the
\* configured columns, and clean is what cut it down
C20_DefaultCleanProjects ==
  cls /= CleanBuilder =>
    \A k \in 1..Len(combined) :
      /\ combined[k].given = ReadCsv(combined[k].stream).val
      /\ combined[k].frame.columns = Val(self._keep_columns)
      /\ combined[k].frame = clean(combined[k].given, Val(self._keep_columns)).val
C20_DefaultCleanWitness ==
  /\ cls = "DFBuilder" /\ combined /= <<>>
  /\ combined[1].given.columns = <<"id", "val", "value">>
  /\ combined[1].frame.columns = <<"id", "val">>

\* C21: every build() over a finite expanded source list whose sources
\* each yield finitely many streams leaves the Building state: it
\* eventually reaches Done, a table returned, or Failed, an exception
\* propagated, and no other outcome is reachable.
C21_BuildEndsWithTable ==
  (state = "Building") ~>
    ((state = "Done" /\ ~IsNone(result)) \/ (state = "Failed" /\ error /= ""))
\* what holds: build() ends, by returning or by raising
C21_Terminates == (state = "Building") ~> BuildOver
\* and once it has ended nothing of the program goes on
C21_Final == BuildOver => ~ENABLED Step

\* the call left every attribute but the one named as it found it
OnlyChanged(attr) ==
  \A f \in DOMAIN self : f /= attr => self[f] = Val(call.before)[f]
\* the attribute an accessor reads and writes
AttrOf(name) ==
  CASE name = "path" -> "_path"
    [] name = "files" -> "_files"
    [] name = "columns" -> "_keep_columns"
    [] name = "suffixes" -> "_suffixes"
\* the last step of the program was a call of an accessor
JustCalled == call.n > 0 /\ state = "Configured"

\* C22: for each accessor path(), files(), columns() and suffixes(): a
\* call with no argument returns the stored value and changes no
\* attribute of the builder; a call with a non-None argument changes only
\* that one attribute and returns the value now stored.
C22_AccessorFrame ==
  JustCalled =>
    /\ call.err = ""
    /\ call.ret = Some(self[AttrOf(call.name)])
    /\ IsNone(call.arg) => self = Val(call.before)
    /\ ~IsNone(call.arg) => OnlyChanged(AttrOf(call.name))
\* what holds: files([]) raises IndexError and changes nothing, every
\* other call is as described, and an argument is stored as given, a
\* flat list of patterns as one group
C22_AccessorFrameNonEmpty ==
  JustCalled =>
    IF call.name = "files" /\ call.arg = Some(<<>>)
    THEN call.err = "IndexError" /\ IsNone(call.ret) /\ self = Val(call.before)
    ELSE /\ call.err = ""
         /\ call.ret = Some(self[AttrOf(call.name)])
         /\ IsNone(call.arg) => self = Val(call.before)
         /\ ~IsNone(call.arg) =>
              /\ OnlyChanged(AttrOf(call.name))
              /\ call.name = "path" => self._path = Val(call.arg)
              /\ call.name = "columns" => self._keep_columns = call.arg
              /\ call.name = "suffixes" => self._suffixes = call.arg
              /\ call.name = "files" =>
                   self._files = IF IsList(Val(call.arg)[1]) THEN call.arg
                                 ELSE Some(<< Lst(Val(call.arg)) >>)

\* C23: every stream that file_open opens during build() is closed by the
\* time build() returns or fails, on the normal path and on every failure
\* path (a parse, projection or combine error raised while build() holds
\* the stream included), for the base builder and for the overrides of
\* the subclasses.
C23_StreamsClosed == BuildOver => open = {}
\* build() of a subclass has failed in its loop body and the stream it
\* was working on is open and still referenced by the suspended generator
C23_HeldAfterFailure ==
  /\ ~BaseFileOpen
  /\ state = "Failed" /\ pc = "body"
  /\ gen.cur /= None /\ Val(gen.cur) \in open
\* build() of the base builder has returned a table and a stream it read
\* is open
C23_OpenAfterReturn ==
  /\ BaseFileOpen
  /\ state = "Done" /\ ~IsNone(result)
  /\ \E k \in 1..Len(yielded) : yielded[k].stream \in open
\* what holds: a subclass whose build() returns has closed every stream
\* it yielded; what it leaves open are handles it never yielded (the
\* ZipFile of an archive, the last entry the pattern builders open)
C23_SubclassClosesYielded ==
  (~BaseFileOpen /\ state = "Done") =>
    \A k \in 1..Len(yielded) : yielded[k].stream \notin open

\* the column list is the wildcard: its first element is '*'
IsWildcard(keep_columns) ==
  ~IsNone(keep_columns) /\ Val(keep_columns) /= <<>> /\ Val(keep_columns)[1] = "*"

\* C24: build() changes no configuration of the builder other than the
\* projection-column list: files, path, axis, suffixes, join
\* specification and parser parameters are after build() what they were
\* before it, whether it returns or fails, and the column list itself
\* changes only when it was the wildcard.  (Every step from the call of
\* build() to its return or its failure leaves them alone.)
C24_BuildFrame ==
  [][ (state = "Building" \/ state' = "Building") =>
        /\ \A f \in DOMAIN self \ {"_keep_columns"} : self'[f] = self[f]
        /\ self'._keep_columns /= self._keep_columns => IsWildcard(self._keep_columns)
    ]_vars
\* a build() with parser parameters that replaced the wildcard and then
\* failed
C24_Witness ==
  /\ state = "Failed" /\ pc = "body"
  /\ args.kwargs = IndexColParams /\ self._file_params = IndexColParams
  /\ args.columns = Some(<<"*">>)
  /\ self._keep_columns = Some(<<"value">>)
  /\ self._files = Some(<< Lst(Val(args.files)) >>)

\* the patterns of a files argument in the order they are written: of a
\* list of groups, group after group, of a flat list, as they stand
PatternsOf(f) ==
  IF IsList(f[1])
  THEN Flatten([g \in 1..Len(f) |-> [b \in 1..Len(f[g].items) |-> f[g].items[b].str]])
  ELSE [b \in 1..Len(f) |-> f[b].str]
RECURSIVE MatchesInOrder(_, _, _)
\* list is the matches of the first pattern, then those of the second,
\* and so on
MatchesInOrder(list, base, patterns) ==
  IF patterns = <<>> THEN list = <<>>
  ELSE \E n \in 0..Len(list) :
         /\ SubSeq(list, 1, n) \in Glob(base \o Head(patterns))
         /\ MatchesInOrder(SubSeq(list, n + 1, Len(list)), base, Tail(patterns))
\* the files argument in force: of the last call of files() that stored
\* one, else of the constructor
FilesGiven == IF ~IsNone(call.given) THEN call.given ELSE args.files

\* C25: the expanded source list is the concatenation, in configuration
\* order of groups and of patterns within each group, of the matches of
\* base path + pattern; a pattern with no match contributes zero entries
\* and raises no error, and a flat list of patterns passed to the
\* constructor or to files() is treated as one group.
C25_ExpandInOrder ==
  /\ state \in {"Configured", "Building", "Done", "Failed"} =>
       /\ ~IsNone(self._files)
       /\ Blocks(Val(self._files)) = PatternsOf(Val(FilesGiven))
       /\ ~IsList(Val(FilesGiven)[1]) => self._files = Some(<< Lst(Val(FilesGiven)) >>)
  /\ state \in {"Building", "Done", "Failed"} =>
       /\ MatchesInOrder(full_file_list, self._path, PatternsOf(Val(FilesGiven)))
       /\ state = "Failed" => pc \in {"next", "body"}
\* a flat list handed to files(): a pattern without a match and one with
\* two matches
C25_Witness ==
  /\ state = "Done"
  /\ call.name = "columns"
  /\ call.given = Some(<< Str("x*.csv"), Str("[ab].csv") >>)
  /\ full_file_list = << b_csv, a_csv >>
  /\ Len(combined) = 2
\* three groups handed to files(), one of them empty
C25_WitnessGroups ==
  /\ state = "Done"
  /\ Len(Val(self._files)) = 3
  /\ full_file_list = << b_csv, a_csv >>

\* the classes that define a cleaning method df_clean
DefinesDfClean == cls \in {"CoreBuilderL", "CoreBuilderR", "PatternBuilderR"}

\* C26: for every parsed table, build() first filters it to the
\* configured columns and then applies the cleaning hook of the builder's
\* class before combining it: the cleaning method a subclass defines
\* (df_clean in CoreBuilderL, CoreBuilderR, PatternBuilderR) is invoked
\* once per parsed table.
C26_CleanerInvoked ==
  \A k \in 1..Len(combined) :
    /\ combined[k].frame.columns = Val(self._keep_columns)
    /\ DefinesDfClean => Count(combined[k].by, "df_clean") = 1
\* what holds: every table is filtered to the column list by
\* DFBuilder.clean, the one method called on it, in every class
C26_ProjectedByClean ==
  \A k \in 1..Len(combined) :
    /\ combined[k].by = << "clean" >>
    /\ combined[k].frame = clean(combined[k].given, Val(self._keep_columns)).val

\* the names the columns of the frames joined so far are given: those of
\* the first file with '_' and its suffix appended, then those of the
\* second, and so on
SeriesNames ==
  Flatten([i \in 1..Len(series.parts) |->
             [k \in 1..Len(series.parts[i]) |->
                series.parts[i][k] \o "_" \o series.suffixes[i]]])
\* build_time_series_frame refused its arguments before doing anything
SeriesRefused ==
  /\ series.pc = "raised" /\ series.err = "ValueError"
  /\ series.sources = <<>> /\ series.parts = <<>> /\ IsNone(series.big_df)
  /\ opened = <<>>

\* C27: build_time_series_frame raises ValueError when the number of
\* files differs from the number of suffixes, before any file is opened
\* or any DFBuilder is built; when the counts match, every column of the
\* returned frame ends with '_' followed by the suffix of the file it
\* came from.
C27_SeriesSuffixed ==
  /\ (Len(series.files) /= Len(series.suffixes) /\ series.pc /= "start") => SeriesRefused
  /\ (Len(series.files) = Len(series.suffixes) /\ series.pc /= "start") =>
       series.pc /= "raised" \/ series.err /= "ValueError" \/ series.sources /= <<>>
  /\ (series.pc = "returned" /\ ~IsNone(series.result)) =>
       Val(series.result).columns = SeriesNames
\* what holds: the same, for the frames whose suffixed column names do
\* not repeat from one file to another
C27_SeriesSuffixedDistinct ==
  /\ (Len(series.files) /= Len(series.suffixes) /\ series.pc /= "start") => SeriesRefused
  /\ (Len(series.files) = Len(series.suffixes) /\ series.pc /= "start") =>
       series.pc /= "raised" \/ series.err /= "ValueError" \/ series.sources /= <<>>
  /\ (series.pc \in {"loop", "returned"} /\ Unique(SeriesNames)) =>
       /\ series.parts /= <<>> => Val(series.big_df).columns = SeriesNames
       /\ series.pc = "returned" => series.result = series.big_df
\* two files with a suffix each, joined on the row labels
C27_Witness ==
  /\ series.pc = "returned"
  /\ Len(series.files) = 2 /\ series.suffixes = <<"a", "b">>
  /\ Val(series.result).columns =
       << "bucketed_dwell_times_a", "est_dwell_a", "bucketed_dwell_times_b", "est_dwell_b" >>
  /\ Val(series.result).rows /= <<>>
\* one file and two suffixes
C27_WitnessRefused ==
  /\ Len(series.files) = 1 /\ Len(series.suffixes) = 2
  /\ SeriesRefused

\* the configured axis is neither 0 nor 1 and build() has been called
OtherAxis == state \in {"Building", "Done", "Failed"} /\ self._axis \notin {0, 1}

\* C28: when the configured axis is neither 0 nor 1, build() raises no
\* error for it and returns the first parsed table only: every later
\* table is still opened, parsed and cleaned, but the accumulator is left
\* unchanged by it.
C28_OtherAxisKeepsFirst ==
  OtherAxis =>
    /\ \A k \in 1..Len(yielded) :
         (Produced(k) /\ TmpSuffixes(self._suffixes, yielded[k].idx).err = "") =>
           /\ Len(combined) >= k
           /\ combined[k].stream = yielded[k].stream
           /\ combined[k].frame = FrameOf(k)
    /\ combined = <<>> => IsNone(big_df)
    /\ combined /= <<>> =>
         big_df = Some(FirstTable(combined[1].frame, self._suffixes).val)
    /\ state = "Done" =>
         /\ result = big_df
         /\ Len(yielded) = Len(full_file_list)
         /\ Len(combined) = Len(full_file_list)
    /\ state = "Failed" =>
         \/ pc = "next"
         \/ /\ pc = "body"
            /\ ~(Produced(Len(yielded)) /\
                  TmpSuffixes(self._suffixes, yielded[Len(yielded)].idx).err = "")
\* two sources of different columns read with axis 2: the second has
\* been parsed and cleaned and the result is the first
C28_Witness ==
  /\ OtherAxis
  /\ state = "Done"
  /\ Len(combined) = 2
  /\ combined[1].frame = T_a
  /\ combined[2].frame = T_b
  /\ result = Some(T_a)

\* build() is over, every source it got to could be opened and no stream
\* was yielded: the patterns matched nothing, or no source yielded one
NoStream ==
  /\ BuildOver
  /\ pc /= "init"
  /\ yielded = <<>>
  /\ \A i \in 1..Len(full_file_list) : full_file_list[i] \notin Unreadable

\* C29: when the configured patterns expand to no source, or no expanded
\* source yields any stream, build() completes without raising and
\* returns the unset accumulator (None) instead of a table.
C29_NoStreamReturnsNone ==
  NoStream => (state = "Done" /\ error = "" /\ IsNone(result))
\* what holds: so it is unless a pattern builder meets an archive
\* without a csv or gz entry, where z_contents[-1] raises IndexError
C29_NoStreamReturnsNoneOrIndexError ==
  NoStream =>
    \/ state = "Done" /\ error = "" /\ IsNone(result)
    \/ /\ IsPattern
       /\ state = "Failed" /\ error = "IndexError" /\ pc = "next"
       /\ ZContents(full_file_list[idx + 1]) = <<>>
\* the patterns matched nothing and None was returned
C29_WitnessNoSource ==
  /\ NoStream /\ state = "Done" /\ IsNone(result)
  /\ ~IsNone(args.files) /\ full_file_list = <<>>
\* an archive was opened, yielded nothing, and None was returned
C29_WitnessNoStream ==
  /\ NoStream /\ state = "Done" /\ IsNone(result)
  /\ full_file_list /= <<>> /\ opened /= <<>>

\* build() stacks and a suffix list is configured
StackSuffixed ==
  /\ state \in {"Building", "Done", "Failed"}
  /\ self._axis = 0
  /\ ~IsNone(self._suffixes)
RECURSIVE RowsBefore(_)
\* the rows the tables folded before the k-th have
RowsBefore(k) ==
  IF k <= 1 THEN 0 ELSE Len(combined[k - 1].frame.rows) + RowsBefore(k - 1)
\* the column names of the tables folded after the first
LaterNames ==
  UNION { Range(combined[k].frame.columns) : k \in 2..Len(combined) }

\* C30: in stack mode (axis 0) with a suffix list configured, only the
\* first table's columns are renamed (with suffixes[0]); every later table
\* is stacked under its native column names, so after any number of
\* sources the only suffix that appears in the result's column names is
\* suffixes[0] and the later tables' values sit in columns the first
\* table does not populate.
C30_StackRenamesFirstOnly ==
  (StackSuffixed /\ combined /= <<>>) =>
    LET first == combined[1].frame
        acc == Val(big_df)
        nfirst == Len(first.columns)
        renamed == Suffixed(first.columns)
    IN /\ ~IsNone(big_df)
       /\ Len(acc.columns) >= nfirst
       /\ SubSeq(acc.columns, 1, nfirst) = renamed
       /\ Range(acc.columns) = Range(renamed) \cup LaterNames
       /\ \A k \in 1..Len(combined), j \in 2..Len(Val(self._suffixes)) :
            \A c \in Range(combined[k].frame.columns) :
              Val(self._suffixes)[j] /= Val(self._suffixes)[1] =>
                ~HasColumn(acc, c \o Val(self._suffixes)[j])
       /\ Len(acc.rows) = RowsBefore(Len(combined) + 1)
       /\ \A r \in 1..Len(first.rows), j \in 1..Len(acc.columns) :
            acc.rows[r][j] = IF j <= nfirst THEN first.rows[r][j] ELSE NaN
       /\ \A k \in 2..Len(combined) :
            \A r \in 1..Len(combined[k].frame.rows), j \in 1..Len(acc.columns) :
              acc.rows[RowsBefore(k) + r][j] =
                IF j > nfirst /\ HasColumn(combined[k].frame, acc.columns[j])
                THEN Cell(combined[k].frame, r, acc.columns[j])
                ELSE NaN
       /\ state = "Done" => result = big_df
\* a.csv and b.csv stacked with suffixes ['_x', '_y']: the columns of
\* a.csv carry '_x', the rows of b.csv sit under the bare names
C30_Witness ==
  /\ StackSuffixed /\ state = "Done"
  /\ Len(combined) = 2
  /\ Val(self._suffixes) = <<"_x", "_y">>
  /\ Val(result).columns = <<"id_x", "val_x", "id", "val">>
  /\ Val(result).rows[1] = <<"1", "10", NaN, NaN>>
  /\ Val(result).rows[3] = <<NaN, NaN, "1", "100">>
====
